---------------------------- MODULE Spec2Model ----------------------------
(***************************************************************************)
(* Abuse protection of QR Studio: AdvancedRateLimiter, ResourceMonitor,    *)
(* CostProtection and check_abuse_protection (backend/app/core/            *)
(* abuse_protection.py), the middleware that calls them (backend/app/      *)
(* middleware/abuse_middleware.py), the admin operations on them           *)
(* (backend/app/api/admin.py) and RateLimiter (backend/app/core/           *)
(* security.py).                                                           *)
(*                                                                         *)
(* Time is the wall clock in whole seconds.  A handler reads the clock     *)
(* once: the few time.time() calls of one handler return the same second.  *)
(* Python strings are sequences of one-character strings, so that `in`,    *)
(* lower() and int() are computed and not assumed.                         *)
(* A dict is a function whose DOMAIN is its key set; a defaultdict is a    *)
(* total function that holds the default where the dict has no key (the    *)
(* code reads a defaultdict only through its values).                      *)
(*                                                                         *)
(* check_request is a coroutine with one await, on _check_abuse_patterns.  *)
(* That coroutine never suspends, so the event loop runs a check_request   *)
(* call to its return: the action CheckRequest.  Enter and Resume split    *)
(* the call at its await and let other steps in between; they allow more   *)
(* than the event loop does, and what holds with them holds of the code.   *)
(*                                                                         *)
(* Specifications, each over the same state:                               *)
(*   Spec        requests, errors, admin unblock and reset, block expiry   *)
(*   SpecLevels  the same with errors counted up to record_error's         *)
(*               escalation                                                *)
(*   SpecYield   calls suspended at the await, with admin reset between    *)
(*   SpecCalls   calls alone, whole or suspended, up to five in flight     *)
(*   SpecWindow  the two sliding-window limiters on their own              *)
(*   SpecQR      a fresh client's QR generations                           *)
(*   SpecCost    the cost ledger over a day                                *)
(*   SpecBlock   violations collected up to the longest block              *)
(*   SpecDispatch  requests through the middleware, handled concurrently   *)
(*   SpecFaults  the same with exceptions inside check_abuse_protection    *)
(*   SpecStats   suspended calls and the admin reset, read by get_stats    *)
(*   SpecReset   requests, errors and the admin reset                      *)
(*   SpecBurst   up to 22 requests of a client within ten seconds          *)
(*   SpecUsage   the ledger's daily and hourly reset clocks                *)
(*   SpecLarge   uploads above max_file_size up to the block and beyond    *)
(*   SpecEndpoints  the three endpoint windows filled at one instant       *)
(*   SpecHistory  violations recorded and pruned over an hour              *)
(*   SpecHeaders  the headers on the responses to a client's requests      *)
(*   SpecEscalate  _escalate_threat_level called on its own                *)
(*   SpecLedger  two clients on one ledger near its limits                 *)
(*   SpecQuota  check_limits calls, lazy resets and the admin reset        *)
(*   SpecRetry  a blocked client that goes on sending                      *)
(*   SpecDenials  a client denied by its upload window again and again     *)
(*   SpecIsolation  two clients' requests, errors and unblocks             *)
(*   SpecHandler  dispatch with a handler, or a later step, that raises    *)
(***************************************************************************)
EXTENDS Integers, Sequences, FiniteSets, Bags, TLC

\* ------------------------------------------------------------------ bounds
\* The clock at construction (time.time() is far beyond one day).
Epoch == 100000
\* The largest request_count (and large_file_count) of a record.
MaxRequests == 5
\* The largest error_count of a record.
MaxErrors == 1
\* The same where record_error is followed up to its escalations.
ErrorRequests == 11
ErrorErrors == 7
\* The most violations a record holds.
MaxViolations == 5
\* The most violations on a record where the history is followed over an hour.
MaxRecorded == 6
\* The largest large_file_count where large files are counted up to the
\* denial.
MaxLargeFiles == 13
\* Large uploads of a client counted past its block (the 14th at CRITICAL).
MaxLargeUploads == 15
\* The largest request_count where QR generations are counted up to the
\* denial.
MaxQRRequests == 12
\* The largest limit and the longest window of a sliding window under test.
MaxLimit == 3
MaxWindow == 2
\* The hours over which the cost ledger is followed, and the largest usage
\* of an operation without a limit.
CostHours == 10
MaxUsage == 10001
\* The most violations where a block's duration is followed through its steps.
MaxBlockViolations == 21
\* The most check_request calls suspended at their await at once: where
\* reset_limits runs between them, and where it does not.
YieldPending == 2
MaxPending == 5
\* The most metrics objects alive outside client_metrics at once.
MaxOrphans == 1
\* The most reset_limits calls of a behaviour.
MaxResets == 1
\* SpecDispatch: requests of a client being handled at once, requests admitted
\* and errors recorded
MaxInFlight == 6
MaxDispatched == 6
MaxDispatchErrors == 1
\* SpecUsage: the usage the ledger counts up to
MaxLedger == 3000
\* SpecBurst: requests of a client within ten seconds
MaxBurst == 22
\* SpecFaults: the same, with exceptions in check_abuse_protection
MaxFaultInFlight == 2
MaxFaultDispatched == 4
\* The most requests of a client answered with the protection headers.
MaxAnswered == 32

\* ------------------------------------------------------- program constants
MAX_CONCURRENT_REQUESTS == 5
REQUESTS_PER_MINUTE == 30
QR_GENERATIONS_PER_MINUTE == 10
FILE_UPLOADS_PER_MINUTE == 5
MAX_FILE_SIZE == 5 * 1024 * 1024
LARGE_FILES == 10
BURST_REQUESTS == 20
BURST_WINDOW == 10
ENDPOINT_WINDOW == 60
VIOLATION_WINDOW == 3600
DAY == 86400
HOUR == 3600

\* Optional[float] None.  No timestamp is negative.
None == -1

Max(a, b) == IF a >= b THEN a ELSE b

\* ------------------------------------------------------------------ strings
UpperCase == <<"A", "B", "C", "D", "E", "F", "G", "H", "I", "J", "K", "L", "M", "N", "O", "P", "Q", "R", "S", "T", "U", "V", "W", "X", "Y", "Z">>
LowerCase == <<"a", "b", "c", "d", "e", "f", "g", "h", "i", "j", "k", "l", "m", "n", "o", "p", "q", "r", "s", "t", "u", "v", "w", "x", "y", "z">>
Digits == <<"0", "1", "2", "3", "4", "5", "6", "7", "8", "9">>

\* str.lower() on ASCII text.
lower_char(c) ==
    IF \E i \in 1..26 : UpperCase[i] = c
    THEN LowerCase[CHOOSE i \in 1..26 : UpperCase[i] = c]
    ELSE c

str_lower(s) == [i \in 1..Len(s) |-> lower_char(s[i])]

\* Python's `sub in s` on strings.
str_in(sub, s) ==
    \E i \in 0..(Len(s) - Len(sub)) : \A j \in 1..Len(sub) : s[i + j] = sub[j]

is_digit(c) == \E i \in 1..10 : Digits[i] = c

digit_value(c) == (CHOOSE i \in 1..10 : Digits[i] = c) - 1

RECURSIVE digits_value(_)
digits_value(s) ==
    IF Len(s) = 0 THEN 0
    ELSE 10 * digits_value(SubSeq(s, 1, Len(s) - 1)) + digit_value(s[Len(s)])

\* int(s) on the header values the model sends: a non-empty run of decimal
\* digits parses to its value, any other text raises ValueError.
int_parse(s) ==
    IF Len(s) > 0 /\ \A i \in 1..Len(s) : is_digit(s[i])
    THEN [ok |-> TRUE, value |-> digits_value(s)]
    ELSE [ok |-> FALSE, value |-> 0]

\* str(n) of an int: its decimal digits, after a "-" when it is negative.
RECURSIVE str_int(_)
str_int(n) ==
    IF n < 0 THEN <<"-">> \o str_int(0 - n)
    ELSE IF n < 10 THEN <<Digits[n + 1]>>
    ELSE Append(str_int(n \div 10), Digits[(n % 10) + 1])
suspicious_agents ==
    << <<"b", "o", "t">>,
       <<"c", "r", "a", "w", "l", "e", "r">>,
       <<"s", "p", "i", "d", "e", "r">>,
       <<"s", "c", "r", "a", "p", "e", "r">>,
       <<"c", "u", "r", "l">>,
       <<"w", "g", "e", "t">>,
       <<"p", "y", "t", "h", "o", "n", "-", "r", "e", "q", "u", "e", "s", "t", "s">>,
       <<"p", "o", "s", "t", "m", "a", "n">>,
       <<"i", "n", "s", "o", "m", "n", "i", "a">>,
       <<"h", "t", "t", "p", "i", "e">>,
       <<"t", "e", "s", "t">>,
       <<"s", "c", "a", "n", "n", "e", "r">>,
       <<"e", "x", "p", "l", "o", "i", "t">> >>

legitimate_patterns ==
    << <<"g", "o", "o", "g", "l", "e", "b", "o", "t">>,
       <<"b", "i", "n", "g", "b", "o", "t">>,
       <<"s", "l", "a", "c", "k", "b", "o", "t">>,
       <<"t", "w", "i", "t", "t", "e", "r", "b", "o", "t">>,
       <<"f", "a", "c", "e", "b", "o", "o", "k", "e", "x", "t", "e", "r", "n", "a", "l", "h", "i", "t">>,
       <<"w", "h", "a", "t", "s", "a", "p", "p">>,
       <<"t", "e", "l", "e", "g", "r", "a", "m">>,
       <<"d", "i", "s", "c", "o", "r", "d">>,
       <<"l", "i", "n", "k", "e", "d", "i", "n">>,
       <<"p", "i", "n", "t", "e", "r", "e", "s", "t">> >>

STR_qr_generate == <<"/", "q", "r", "/", "g", "e", "n", "e", "r", "a", "t", "e">>
STR_upload == <<"u", "p", "l", "o", "a", "d">>
STR_logo == <<"l", "o", "g", "o">>

\* ----------------------------------------------------------------- requests
\* What check_request reads of a starlette Request: method, url.path and the
\* headers user-agent, accept and content-length (<<>> is a header that is
\* absent or empty: the code tests each with `if header`).
PATH_generate == <<"/", "a", "p", "i", "/", "v", "1", "/", "q", "r", "/", "g", "e", "n", "e", "r", "a", "t", "e">>
PATH_logo == <<"/", "a", "p", "i", "/", "v", "1", "/", "l", "o", "g", "o">>
PATH_presets == <<"/", "a", "p", "i", "/", "v", "1", "/", "q", "r", "/", "p", "r", "e", "s", "e", "t", "s">>
UA_browser == <<"M", "o", "z", "i", "l", "l", "a", "/", "5", ".", "0">>
UA_curl == <<"c", "u", "r", "l", "/", "8", ".", "4">>
UA_googlebot == <<"G", "o", "o", "g", "l", "e", "b", "o", "t", "/", "2", ".", "1">>
ACCEPT_any == <<"*", "/", "*">>
CL_small == <<"5", "1", "2">>
CL_large == <<"6", "0", "0", "0", "0", "0", "0">>
CL_invalid == <<"1", "e", "3">>

Req(method, path, ua, accept, cl) ==
    [method |-> method, path |-> path, user_agent |-> ua, accept |-> accept,
     content_length |-> cl]

Requests ==
    [qr_post      |-> Req("POST", PATH_generate, UA_browser, ACCEPT_any, CL_small),
     qr_get       |-> Req("GET", PATH_generate, UA_browser, ACCEPT_any, <<>>),
     logo_post    |-> Req("POST", PATH_logo, UA_browser, ACCEPT_any, CL_small),
     presets_get  |-> Req("GET", PATH_presets, UA_browser, ACCEPT_any, <<>>),
     crawler_get  |-> Req("GET", PATH_presets, UA_googlebot, ACCEPT_any, <<>>),
     curl_get     |-> Req("GET", PATH_presets, UA_curl, ACCEPT_any, <<>>),
     curl_bare    |-> Req("POST", PATH_generate, UA_curl, <<>>, CL_invalid),
     bare_get     |-> Req("GET", PATH_presets, UA_browser, <<>>, CL_invalid),
     noaccept_get |-> Req("GET", PATH_presets, UA_browser, <<>>, <<>>),
     large_post   |-> Req("POST", PATH_logo, UA_browser, ACCEPT_any, CL_large)]

RequestNames == DOMAIN Requests

\* any(agent in user_agent for agent in suspicious_agents)
any_suspicious_agent(user_agent) ==
    \E i \in 1..Len(suspicious_agents) : str_in(suspicious_agents[i], user_agent)

is_legitimate_tool(user_agent) ==
    \E i \in 1..Len(legitimate_patterns) : str_in(legitimate_patterns[i], user_agent)

\* The method left out of the first test: any request to /qr/generate.
limit_category_any_method(path, method) ==
    IF str_in(STR_qr_generate, path) THEN "qr_generation"
    ELSE IF method = "POST" /\ (str_in(STR_upload, path) \/ str_in(STR_logo, path))
    THEN "file_upload"
    ELSE "general"
limit_category(path, method) ==
    IF str_in(STR_qr_generate, path) /\ method = "POST" THEN "qr_generation"
    ELSE IF method = "POST" /\ (str_in(STR_upload, path) \/ str_in(STR_logo, path))
    THEN "file_upload"
    ELSE "general"

\* What the string operations give on each request of Requests, computed once:
\* the lowered user-agent's two tests, int(content-length) and the category.
RequestFacts ==
    [rq \in RequestNames |->
        LET req == Requests[rq]
            user_agent == str_lower(req.user_agent)
        IN  [suspicious |-> any_suspicious_agent(user_agent),
             legitimate |-> is_legitimate_tool(user_agent),
             size |-> int_parse(req.content_length),
             category |-> limit_category(req.path, req.method),
             qr_path |-> str_in(STR_qr_generate, req.path)]]

\* -------------------------------------------------------------- identifiers
IPs == {"a", "b"}
Categories == {"qr_generation", "file_upload", "general"}
\* The keys f"{client_ip}:{category}" of _time_windows.
Keys == IPs \X Categories

\* ThreatLevel, in the order of its declaration.
LOW == "low"
MEDIUM == "medium"
HIGH == "high"
CRITICAL == "critical"
ThreatLevels == <<LOW, MEDIUM, HIGH, CRITICAL>>
ThreatRank(level) == CHOOSE i \in 1..4 : ThreatLevels[i] = level

\* AbuseMetrics(first_request_time=first); every other field at its default.
AbuseMetrics(first) ==
    [request_count |-> 0, error_count |-> 0, large_file_count |-> 0,
     suspicious_patterns |-> 0, last_request_time |-> 0,
     first_request_time |-> first, blocked_until |-> None,
     threat_level |-> LOW, violations |-> <<>>]

\* dict[k] = v
Put(d, k, v) == [x \in DOMAIN d \cup {k} |-> IF x = k THEN v ELSE d[x]]

\* ----------------------------------------------------- AdvancedRateLimiter
\* The limiter's state is a record s:
\*   cm       client_metrics: identifier -> AbuseMetrics
\*   blocked  blocked_ips
\*   conc     concurrent_requests (defaultdict(int))
\*   tw       _time_windows (defaultdict(deque)), oldest entry first
\*   orph     AbuseMetrics objects that reset_limits removed from
\*            client_metrics while a suspended check_request still holds them
\*   esc      history: _escalate_threat_level calls on the identifier's record
\*            since its threat level was last set to LOW (counted up to EscCap)
\*   ev_esc, ev_blk   what the running handler did: its _escalate_threat_level
\*            calls, and the violation count its block duration was computed
\*            from (None when it blocked nobody)
EscCap == 5

\* The AbuseMetrics object a handler holds in its local `metrics`: ref 0 is
\* the object now in client_metrics[ip], ref k > 0 is orph[k].
getm(s, ip, ref) == IF ref = 0 THEN s.cm[ip] ELSE s.orph[ref]

setm(s, ip, ref, m) ==
    IF ref = 0 THEN [s EXCEPT !.cm[ip] = m] ELSE [s EXCEPT !.orph[ref] = m]

\* The tiers with their upper ends left out: violation_count < 5, < 10, < 20.
calculate_block_duration_strict(violation_count) ==
    IF violation_count < 5 THEN 300
    ELSE IF violation_count < 10 THEN 900
    ELSE IF violation_count < 20 THEN 3600
    ELSE 86400

calculate_block_duration(violation_count) ==
    IF violation_count <= 5 THEN 300
    ELSE IF violation_count <= 10 THEN 900
    ELSE IF violation_count <= 20 THEN 3600
    ELSE 86400

\* The cutoff taken inclusive: a violation exactly an hour old is kept.
record_violation_keeping_the_hour(s, ip, violation_type, t) ==
    LET s1 == IF ip \in DOMAIN s.cm THEN s
              ELSE [s EXCEPT !.cm = Put(s.cm, ip, AbuseMetrics(0))]
        appended == Append(s1.cm[ip].violations, <<t, violation_type>>)
        cutoff == t - VIOLATION_WINDOW
    IN  [s1 EXCEPT !.cm[ip].violations = SelectSeq(appended, LAMBDA v : v[1] >= cutoff)]
\* A violation is the string f"{time.time()}:{violation_type}", read back with
\* float(v.split(":")[0]): here the pair <<time, type>>, read back with v[1].
record_violation(s, ip, violation_type, t) ==
    LET s1 == IF ip \in DOMAIN s.cm THEN s
              ELSE [s EXCEPT !.cm = Put(s.cm, ip, AbuseMetrics(0))]
        appended == Append(s1.cm[ip].violations, <<t, violation_type>>)
        cutoff == t - VIOLATION_WINDOW
    IN  [s1 EXCEPT !.cm[ip].violations = SelectSeq(appended, LAMBDA v : v[1] > cutoff)]

\* The ladder closed into a ring: CRITICAL escalates to LOW.
escalate_wrapping(s, ip, t) ==
    IF ip \notin DOMAIN s.cm THEN s
    ELSE
        LET metrics == s.cm[ip]
            s0 == [s EXCEPT !.ev_esc = @ + 1,
                            !.esc[ip] = IF @ < EscCap THEN @ + 1 ELSE @]
        IN  IF metrics.threat_level = LOW
            THEN [s0 EXCEPT !.cm[ip].threat_level = MEDIUM]
            ELSE IF metrics.threat_level = MEDIUM
            THEN [s0 EXCEPT !.cm[ip].threat_level = HIGH]
            ELSE IF metrics.threat_level = HIGH
            THEN [s0 EXCEPT !.cm[ip].threat_level = CRITICAL,
                            !.cm[ip].blocked_until =
                                t + calculate_block_duration(Len(metrics.violations)),
                            !.blocked = @ \cup {ip},
                            !.ev_blk = Len(metrics.violations)]
            ELSE [s0 EXCEPT !.cm[ip].threat_level = LOW]

\* The ladder with HIGH left out: MEDIUM escalates to CRITICAL.
escalate_skipping_high(s, ip, t) ==
    IF ip \notin DOMAIN s.cm THEN s
    ELSE
        LET metrics == s.cm[ip]
            s0 == [s EXCEPT !.ev_esc = @ + 1,
                            !.esc[ip] = IF @ < EscCap THEN @ + 1 ELSE @]
        IN  IF metrics.threat_level = LOW
            THEN [s0 EXCEPT !.cm[ip].threat_level = MEDIUM]
            ELSE IF metrics.threat_level \in {MEDIUM, HIGH}
            THEN [s0 EXCEPT !.cm[ip].threat_level = CRITICAL,
                            !.cm[ip].blocked_until =
                                t + calculate_block_duration(Len(metrics.violations)),
                            !.blocked = @ \cup {ip},
                            !.ev_blk = Len(metrics.violations)]
            ELSE s0

\* The block renewed by every call at CRITICAL.
escalate_blocking_again(s, ip, t) ==
    IF ip \notin DOMAIN s.cm THEN s
    ELSE
        LET metrics == s.cm[ip]
            s0 == [s EXCEPT !.ev_esc = @ + 1,
                            !.esc[ip] = IF @ < EscCap THEN @ + 1 ELSE @]
        IN  IF metrics.threat_level = LOW
            THEN [s0 EXCEPT !.cm[ip].threat_level = MEDIUM]
            ELSE IF metrics.threat_level = MEDIUM
            THEN [s0 EXCEPT !.cm[ip].threat_level = HIGH]
            ELSE [s0 EXCEPT !.cm[ip].threat_level = CRITICAL,
                            !.cm[ip].blocked_until =
                                t + calculate_block_duration(Len(metrics.violations)),
                            !.blocked = @ \cup {ip},
                            !.ev_blk = Len(metrics.violations)]
escalate_threat_level(s, ip, t) ==
    IF ip \notin DOMAIN s.cm THEN s
    ELSE
        LET metrics == s.cm[ip]
            s0 == [s EXCEPT !.ev_esc = @ + 1,
                            !.esc[ip] = IF @ < EscCap THEN @ + 1 ELSE @]
        IN  IF metrics.threat_level = LOW
            THEN [s0 EXCEPT !.cm[ip].threat_level = MEDIUM]
            ELSE IF metrics.threat_level = MEDIUM
            THEN [s0 EXCEPT !.cm[ip].threat_level = HIGH]
            ELSE IF metrics.threat_level = HIGH
            THEN LET block_duration == calculate_block_duration(Len(metrics.violations))
                 IN  [s0 EXCEPT !.cm[ip].threat_level = CRITICAL,
                                !.cm[ip].blocked_until = t + block_duration,
                                !.blocked = @ \cup {ip},
                                !.ev_blk = Len(metrics.violations)]
            ELSE s0

\* The purge taken inclusive: an entry exactly window_seconds old is dropped.
RECURSIVE popleft_old_inclusive(_, _)
popleft_old_inclusive(window, cutoff) ==
    IF Len(window) > 0 /\ window[1] <= cutoff
    THEN popleft_old_inclusive(Tail(window), cutoff)
    ELSE window
\* while window and window[0] < cutoff: window.popleft()
RECURSIVE popleft_old(_, _)
popleft_old(window, cutoff) ==
    IF Len(window) > 0 /\ window[1] < cutoff
    THEN popleft_old(Tail(window), cutoff)
    ELSE window

\* The limit test off by one: if len(window) > limit.
admit_one_too_many(window, limit, t) ==
    IF Len(window) > limit
    THEN [window |-> window, ok |-> FALSE]
    ELSE [window |-> Append(window, t), ok |-> TRUE]

\* The denied check entered in the window like an admitted one.
admit_to_window_noting_denials(window, limit, t) ==
    [window |-> Append(window, t), ok |-> Len(window) < limit]
\* The rest of _check_time_window_limit, on the window already trimmed.
admit_to_window(window, limit, t) ==
    IF Len(window) >= limit
    THEN [window |-> window, ok |-> FALSE]
    ELSE [window |-> Append(window, t), ok |-> TRUE]

\* The deque under key after the call, and the value returned.
check_time_window_limit(s, key, limit, window_seconds, t) ==
    admit_to_window(popleft_old(s.tw[key], t - window_seconds), limit, t)

\* Every category held to the general limit.
category_limit_general(category) == REQUESTS_PER_MINUTE

category_limit(category) ==
    IF category = "qr_generation" THEN QR_GENERATIONS_PER_MINUTE
    ELSE IF category = "file_upload" THEN FILE_UPLOADS_PER_MINUTE
    ELSE REQUESTS_PER_MINUTE

category_reason(category) ==
    IF category = "qr_generation" THEN "QR generation rate limit exceeded"
    ELSE IF category = "file_upload" THEN "File upload rate limit exceeded"
    ELSE "General rate limit exceeded"

endpoint_result(s, key, r, category) ==
    [s |-> [s EXCEPT !.tw[key] = r.window], ok |-> r.ok,
     reason |-> IF r.ok THEN "None" ELSE category_reason(category)]

\* One window per category, shared by all identifiers.
limit_in_category_shared(s, ip, category, t) ==
    endpoint_result(s, <<"a", category>>,
                    check_time_window_limit(s, <<"a", category>>,
                                            category_limit(category), ENDPOINT_WINDOW, t),
                    category)
limit_in_category(s, ip, category, t) ==
    endpoint_result(s, <<ip, category>>,
                    check_time_window_limit(s, <<ip, category>>,
                                            category_limit(category), ENDPOINT_WINDOW, t),
                    category)

check_endpoint_limits(s, rq, ip, t) ==
    limit_in_category(s, ip, RequestFacts[rq].category, t)

\* getattr(metrics, "recent_times", []): no code sets the attribute.
recent_times(metrics) == <<>>

\* Pattern 1 of _check_abuse_patterns: now - last_request_time < 0.5 and more
\* than 20 recent requests.
burst_detected(metrics, t) ==
    /\ 2 * (t - metrics.last_request_time) < 1
    /\ Len(SelectSeq(recent_times(metrics), LAMBDA x : t - x < BURST_WINDOW))
           > BURST_REQUESTS

\* The violation recorded and the escalation left out.
pattern_user_agent_recording_only(s, rq, ip, t) ==
    IF RequestFacts[rq].suspicious /\ ~RequestFacts[rq].legitimate
    THEN record_violation(s, ip, "suspicious_user_agent", t)
    ELSE s
\* Pattern 2: the user-agent.
pattern_user_agent(s, rq, ip, t) ==
    IF RequestFacts[rq].suspicious /\ ~RequestFacts[rq].legitimate
    THEN escalate_threat_level(record_violation(s, ip, "suspicious_user_agent", t), ip, t)
    ELSE s

\* The missing accept header treated like a suspicious user-agent.
pattern_accept_escalating(s, rq, ip, t) ==
    IF Len(Requests[rq].accept) = 0
    THEN escalate_threat_level(record_violation(s, ip, "missing_accept_header", t), ip, t)
    ELSE s
\* Pattern 3: the accept header.
pattern_accept(s, rq, ip, t) ==
    IF Len(Requests[rq].accept) = 0
    THEN record_violation(s, ip, "missing_accept_header", t)
    ELSE s

Passed(s) == [s |-> s, ok |-> TRUE, reason |-> "None"]

\* The threshold reached one request early: large_file_count >= large_files.
large_file_from_tenth(counted, ip, ref, t) ==
    IF getm(counted, ip, ref).large_file_count >= LARGE_FILES
    THEN [s |-> escalate_threat_level(counted, ip, t), ok |-> FALSE,
          reason |-> "Too many large file uploads"]
    ELSE Passed(counted)
\* Pattern 4 on a content-length above max_file_size; counted is the state
\* after large_file_count += 1.
large_file(counted, ip, ref, t) ==
    IF getm(counted, ip, ref).large_file_count > LARGE_FILES
    THEN [s |-> escalate_threat_level(counted, ip, t), ok |-> FALSE,
          reason |-> "Too many large file uploads"]
    ELSE Passed(counted)

\* Pattern 4: the content-length header.
pattern_content_length(s, rq, ip, ref, t) ==
    IF Len(Requests[rq].content_length) = 0
    THEN Passed(s)
    ELSE IF ~RequestFacts[rq].size.ok
    THEN Passed(record_violation(s, ip, "invalid_content_length", t))
    ELSE IF RequestFacts[rq].size.value > MAX_FILE_SIZE
    THEN large_file(setm(s, ip, ref,
                         [getm(s, ip, ref) EXCEPT !.large_file_count = @ + 1]),
                    ip, ref, t)
    ELSE Passed(s)

check_abuse_patterns(s, rq, ip, ref, t) ==
    IF burst_detected(getm(s, ip, ref), t)
    THEN [s |-> escalate_threat_level(s, ip, t), ok |-> FALSE,
          reason |-> "Request rate too high - burst detected"]
    ELSE pattern_content_length(
             pattern_accept(pattern_user_agent(s, rq, ip, t), rq, ip, t),
             rq, ip, ref, t)

\* rate_info of a denial is {}.
NoRateInfo ==
    [empty |-> TRUE, requests_made |-> 0, threat_level |-> LOW, violations |-> 0,
     blocked_until |-> None, concurrent_requests |-> 0]

calculate_rate_info(s, ip, metrics) ==
    [empty |-> FALSE, requests_made |-> metrics.request_count,
     threat_level |-> metrics.threat_level, violations |-> Len(metrics.violations),
     blocked_until |-> metrics.blocked_until,
     concurrent_requests |-> s.conc[ip]]

\* The decrement without its clamp.
release_slot_unclamped(count) == count - 1

\* self.concurrent_requests[client_ip] = max(0, ... - 1)
release_slot(count) == Max(0, count - 1)

\* The finally clause of check_request.
finally(s, ip) == [s EXCEPT !.conc[ip] = release_slot(@)]

\* The comparison turned round.
block_in_force_reversed(metrics, t) ==
    /\ metrics.blocked_until # None
    /\ metrics.blocked_until # 0
    /\ t > metrics.blocked_until

\* The block still in force at the instant blocked_until.
block_in_force_inclusive(metrics, t) ==
    /\ metrics.blocked_until # None
    /\ metrics.blocked_until # 0
    /\ t <= metrics.blocked_until

\* if metrics.blocked_until and now < metrics.blocked_until
block_in_force(metrics, t) ==
    /\ metrics.blocked_until # None
    /\ metrics.blocked_until # 0
    /\ t < metrics.blocked_until

\* What a call of check_request leaves: the limiter's state s and the triple
\* it returns, or raised when an exception leaves the call.
Denied(s, reason) ==
    [s |-> s, allowed |-> FALSE, reason |-> reason, raised |-> FALSE,
     rate_info |-> NoRateInfo]

Raised(s) ==
    [s |-> s, allowed |-> FALSE, reason |-> "None", raised |-> TRUE,
     rate_info |-> NoRateInfo]

\* metrics.request_count += 1 is done in s; rate_info is computed before the
\* finally clause runs.
Admitted(s, ip, ref) ==
    [s |-> finally(s, ip), allowed |-> TRUE, reason |-> "None", raised |-> FALSE,
     rate_info |-> calculate_rate_info(s, ip, getm(s, ip, ref))]

\* The endpoint denial returning before the finally clause is in force.
body_after_endpoint_leaking(e, ip, ref) ==
    IF ~e.ok
    THEN Denied(e.s, e.reason)
    ELSE Admitted(setm(e.s, ip, ref,
                       [getm(e.s, ip, ref) EXCEPT !.request_count = @ + 1]),
                  ip, ref)

\* The admission that leaves request_count as it found it.
body_after_endpoint_uncounted(e, ip, ref) ==
    IF ~e.ok
    THEN Denied(finally(e.s, ip), e.reason)
    ELSE Admitted(e.s, ip, ref)

\* The try block of check_request after _check_endpoint_limits returned e.
body_after_endpoint(e, ip, ref) ==
    IF ~e.ok
    THEN Denied(finally(e.s, ip), e.reason)
    ELSE Admitted(setm(e.s, ip, ref,
                       [getm(e.s, ip, ref) EXCEPT !.request_count = @ + 1]),
                  ip, ref)

\* request_count += 1 moved up, before the endpoint check.
body_after_patterns_counting_first(p, rq, ip, ref, t, fault) ==
    IF ~p.ok
    THEN Denied(finally(p.s, ip), p.reason)
    ELSE IF fault = "endpoint"
    THEN Raised(finally(p.s, ip))
    ELSE body_after_endpoint_uncounted(
             check_endpoint_limits(setm(p.s, ip, ref,
                                        [getm(p.s, ip, ref) EXCEPT !.request_count = @ + 1]),
                                   rq, ip, t),
             ip, ref)
\* The try block of check_request after _check_abuse_patterns returned p.
body_after_patterns(p, rq, ip, ref, t, fault) ==
    IF ~p.ok
    THEN Denied(finally(p.s, ip), p.reason)
    ELSE IF fault = "endpoint"
    THEN Raised(finally(p.s, ip))
    ELSE body_after_endpoint(check_endpoint_limits(p.s, rq, ip, t), ip, ref)

\* check_request from its await on: the try block with its finally clause.
\* ref is the object in the local `metrics`; t is the local `now`, read on
\* entry.  fault names the step of the try block that raises an exception,
\* if any: "patterns" (_check_abuse_patterns), "endpoint"
\* (_check_endpoint_limits) or "none".
Faults == {"none", "patterns", "endpoint"}

check_request_body(s, rq, ip, ref, t, fault) ==
    IF fault = "patterns"
    THEN Raised(finally(s, ip))
    ELSE body_after_patterns(check_abuse_patterns(s, rq, ip, ref, t),
                             rq, ip, ref, t, fault)

\* The lazy unblock clearing the record's deadline and leaving the set.
lazy_unblock_in_record_only(s, ip) ==
    IF ip \in s.blocked /\ ip \in DOMAIN s.cm
    THEN [s EXCEPT !.cm[ip].blocked_until = None]
    ELSE s
\* The lazy unblock taking the record back to LOW.
lazy_unblock_lowering(s, ip) ==
    IF ip \in s.blocked
    THEN [s EXCEPT !.blocked = @ \ {ip},
                   !.cm = IF ip \in DOMAIN s.cm
                          THEN [@ EXCEPT ![ip].blocked_until = None,
                                         ![ip].threat_level = LOW]
                          ELSE @]
    ELSE s
\* The lazy unblock: blocked_ips.discard and blocked_until = None.
lazy_unblock(s, ip) ==
    IF ip \in s.blocked
    THEN [s EXCEPT !.blocked = @ \ {ip},
                   !.cm = IF ip \in DOMAIN s.cm
                          THEN [@ EXCEPT ![ip].blocked_until = None]
                          ELSE @]
    ELSE s

\* Get or create client metrics, and metrics.last_request_time = now.
get_or_create(s, ip, t) ==
    IF ip \in DOMAIN s.cm
    THEN [s EXCEPT !.cm[ip].last_request_time = t]
    ELSE [s EXCEPT !.cm = Put(s.cm, ip, [AbuseMetrics(t) EXCEPT !.last_request_time = t])]

\* The concurrency check and the increment; done says check_request returned.
take_slot(s, ip, t) ==
    IF s.conc[ip] >= MAX_CONCURRENT_REQUESTS
    THEN [done |-> TRUE,
          res |-> Denied(record_violation(s, ip, "too_many_concurrent_requests", t),
                         "Too many concurrent requests")]
    ELSE [done |-> FALSE, res |-> Denied([s EXCEPT !.conc[ip] = @ + 1], "None")]

\* Whether check_request returns at its block check.
denied_as_blocked(s, ip, t) ==
    /\ ip \in s.blocked
    /\ block_in_force(IF ip \in DOMAIN s.cm THEN s.cm[ip] ELSE AbuseMetrics(0), t)

\* The denial of a blocked identifier starting its block anew.
check_request_enter_extending(s, ip, t) ==
    IF denied_as_blocked(s, ip, t)
    THEN [done |-> TRUE,
          res |-> Denied([s EXCEPT !.cm[ip].blocked_until =
                                       t + calculate_block_duration(
                                               Len(s.cm[ip].violations))],
                         "IP temporarily blocked due to abuse")]
    ELSE take_slot(get_or_create(lazy_unblock(s, ip), ip, t), ip, t)
\* check_request up to its await: the block check, the lookup of the metrics
\* object, the concurrency check and the increment.  done says the call
\* returned here, with res; otherwise res.s is the state at the await.
check_request_enter(s, ip, t) ==
    IF denied_as_blocked(s, ip, t)
    THEN [done |-> TRUE, res |-> Denied(s, "IP temporarily blocked due to abuse")]
    ELSE take_slot(get_or_create(lazy_unblock(s, ip), ip, t), ip, t)

after_enter(e, rq, ip, t, fault) ==
    IF e.done THEN e.res ELSE check_request_body(e.res.s, rq, ip, 0, t, fault)

\* check_request run without a task switch at its await: the awaited
\* coroutine _check_abuse_patterns never suspends.
check_request(s, rq, ip, t, fault) ==
    after_enter(check_request_enter(s, ip, t), rq, ip, t, fault)

\* The request threshold off by one: request_count >= 10.
record_error_from_ten(s, ip, t) ==
    LET s1 == IF ip \in DOMAIN s.cm THEN s
              ELSE [s EXCEPT !.cm = Put(s.cm, ip, AbuseMetrics(0))]
        s2 == [s1 EXCEPT !.cm[ip].error_count = @ + 1]
        metrics == s2.cm[ip]
    IN  IF metrics.request_count > 0
           /\ 2 * metrics.error_count > metrics.request_count
           /\ metrics.request_count >= 10
        THEN escalate_threat_level(s2, ip, t)
        ELSE s2

record_error(s, ip, t) ==
    LET s1 == IF ip \in DOMAIN s.cm THEN s
              ELSE [s EXCEPT !.cm = Put(s.cm, ip, AbuseMetrics(0))]
        s2 == [s1 EXCEPT !.cm[ip].error_count = @ + 1]
        metrics == s2.cm[ip]
    IN  IF metrics.request_count > 0
           /\ 2 * metrics.error_count > metrics.request_count
           /\ metrics.request_count > 10
        THEN escalate_threat_level(s2, ip, t)
        ELSE s2

\* The unblock that puts a fresh record in place of the client's.
unblock_ip_with_fresh_record(s, ip) ==
    IF ip \in s.blocked
    THEN [s EXCEPT !.blocked = @ \ {ip},
                   !.cm = IF ip \in DOMAIN s.cm
                          THEN [@ EXCEPT ![ip] = AbuseMetrics(0)]
                          ELSE @,
                   !.esc[ip] = 0]
    ELSE s

\* admin.unblock_ip
unblock_ip(s, ip) ==
    IF ip \in s.blocked
    THEN [s EXCEPT !.blocked = @ \ {ip},
                   !.cm = IF ip \in DOMAIN s.cm
                          THEN [@ EXCEPT ![ip].blocked_until = None,
                                         ![ip].threat_level = LOW]
                          ELSE @,
                   !.esc[ip] = 0]
    ELSE s

\* A check_request call suspended at its await: its arguments and its locals
\* `now` (t) and `metrics` (ref).
Call(ip, rq, t, ref) == [ip |-> ip, rq |-> rq, t |-> t, ref |-> ref]

IpIndex(ip) == IF ip = "a" THEN 1 ELSE 2

\* The name under which the object client_metrics[ip] lives on in orph.
orphan_ref(orph, ip) ==
    CHOOSE k \in 1..(Cardinality(DOMAIN orph) + 2) :
        /\ k \notin DOMAIN orph
        /\ Cardinality({j \in 1..k : j \notin DOMAIN orph}) = IpIndex(ip)

\* The suspended calls after client_metrics.clear(): each keeps its object.
orphaned(calls, orph) ==
    LET moved(c) == IF c.ref = 0 THEN [c EXCEPT !.ref = orphan_ref(orph, c.ip)] ELSE c
        after == {moved(c) : c \in BagToSet(calls)}
    IN  [d \in after |-> CopiesIn(CHOOSE c \in BagToSet(calls) : moved(c) = d, calls)]

\* The reset without blocked_ips.clear().
reset_keeping_blocked(s, calls) ==
    LET held == {c.ip : c \in {x \in BagToSet(calls) : x.ref = 0}}
        kept == {orphan_ref(s.orph, ip) : ip \in held}
    IN  [s EXCEPT !.cm = [x \in {} |-> AbuseMetrics(0)],
                  !.orph = [k \in DOMAIN s.orph \cup kept |->
                               IF k \in DOMAIN s.orph THEN s.orph[k]
                               ELSE s.cm[CHOOSE ip \in held : orphan_ref(s.orph, ip) = k]],
                  !.conc = [x \in IPs |-> 0],
                  !.esc = [x \in IPs |-> 0]]

\* admin.reset_limits on the limiter: the three clear() calls.  _time_windows
\* is not among them.  calls are the suspended check_request calls.
reset_rate_limiter(s, calls) ==
    LET held == {c.ip : c \in {x \in BagToSet(calls) : x.ref = 0}}
        kept == {orphan_ref(s.orph, ip) : ip \in held}
    IN  [s EXCEPT !.cm = [x \in {} |-> AbuseMetrics(0)],
                  !.orph = [k \in DOMAIN s.orph \cup kept |->
                               IF k \in DOMAIN s.orph THEN s.orph[k]
                               ELSE s.cm[CHOOSE ip \in held : orphan_ref(s.orph, ip) = k]],
                  !.blocked = {},
                  !.conc = [x \in IPs |-> 0],
                  !.esc = [x \in IPs |-> 0]]

\* sum(f[k] for k in keys)
RECURSIVE sum_over(_, _)
sum_over(f, keys) ==
    IF keys = {} THEN 0
    ELSE LET k == CHOOSE x \in keys : TRUE
         IN  f[k] + sum_over(f, keys \ {k})

get_stats(s) ==
    [total_clients |-> Cardinality(DOMAIN s.cm),
     blocked_ips |-> Cardinality(s.blocked),
     threat_levels |->
        [level \in {LOW, MEDIUM, HIGH, CRITICAL} |->
            Cardinality({ip \in DOMAIN s.cm : s.cm[ip].threat_level = level})],
     total_violations |->
        sum_over([ip \in DOMAIN s.cm |-> Len(s.cm[ip].violations)], DOMAIN s.cm),
     concurrent_requests |-> sum_over(s.conc, DOMAIN s.conc)]

\* The result r of a call with the objects dropped that none of calls holds.
held_only(r, calls) ==
    [r EXCEPT !.s.orph = [k \in {c.ref : c \in BagToSet(calls)} \cap DOMAIN @ |-> @[k]]]

\* ---------------------------------------------------------- CostProtection
\* The ledger's state is a record c: daily_usage and hourly_usage
\* (defaultdict(int), keyed by operation) and last_reset.
Operations == {"qr_generations", "file_uploads", "thumbnails"}

daily_limits ==
    [qr_generations |-> 10000, file_uploads |-> 1000, api_calls |-> 100000,
     bandwidth_mb |-> 10000]

hourly_limits ==
    [qr_generations |-> 1000, file_uploads |-> 100, api_calls |-> 10000,
     bandwidth_mb |-> 1000]

NoUsage == [o \in Operations |-> 0]

\* The daily reset clearing the hourly counters with the daily ones.
reset_counters_clearing_both(c, t) ==
    LET c1 == IF t - c.last_reset.daily > DAY
              THEN [c EXCEPT !.daily_usage = NoUsage, !.hourly_usage = NoUsage,
                             !.last_reset.daily = t]
              ELSE c
    IN  IF t - c1.last_reset.hourly > HOUR
        THEN [c1 EXCEPT !.hourly_usage = NoUsage, !.last_reset.hourly = t]
        ELSE c1

reset_counters(c, t) ==
    LET c1 == IF t - c.last_reset.daily > DAY
              THEN [c EXCEPT !.daily_usage = NoUsage, !.last_reset.daily = t]
              ELSE c
    IN  IF t - c1.last_reset.hourly > HOUR
        THEN [c1 EXCEPT !.hourly_usage = NoUsage, !.last_reset.hourly = t]
        ELSE c1

\* The limits denying the request that reaches them.
exceeds_reaching(usage, cost, limits, operation) ==
    operation \in DOMAIN limits /\ usage + cost >= limits[operation]
\* The limits tested on the usage before the call.
exceeds_already(usage, cost, limits, operation) ==
    operation \in DOMAIN limits /\ usage > limits[operation]
\* usage + cost > limits.get(operation, float("inf"))
exceeds(usage, cost, limits, operation) ==
    operation \in DOMAIN limits /\ usage + cost > limits[operation]

\* The daily counter incremented before the hourly limit is checked.
check_limits_counting_early(c, operation, cost, t) ==
    LET c0 == reset_counters(c, t)
    IN  IF exceeds(c0.daily_usage[operation], cost, daily_limits, operation)
        THEN [c |-> c0, allowed |-> FALSE, reason |-> "Daily limit exceeded"]
        ELSE IF exceeds(c0.hourly_usage[operation], cost, hourly_limits, operation)
        THEN [c |-> [c0 EXCEPT !.daily_usage[operation] = @ + cost],
              allowed |-> FALSE, reason |-> "Hourly limit exceeded"]
        ELSE [c |-> [c0 EXCEPT !.daily_usage[operation] = @ + cost,
                               !.hourly_usage[operation] = @ + cost],
              allowed |-> TRUE, reason |-> ""]

check_limits(c, operation, cost, t) ==
    LET c0 == reset_counters(c, t)
    IN  IF exceeds(c0.daily_usage[operation], cost, daily_limits, operation)
        THEN [c |-> c0, allowed |-> FALSE, reason |-> "Daily limit exceeded"]
        ELSE IF exceeds(c0.hourly_usage[operation], cost, hourly_limits, operation)
        THEN [c |-> c0, allowed |-> FALSE, reason |-> "Hourly limit exceeded"]
        ELSE [c |-> [c0 EXCEPT !.daily_usage[operation] = @ + cost,
                               !.hourly_usage[operation] = @ + cost],
              allowed |-> TRUE, reason |-> ""]

\* The ledger after the call, and the dict returned.
get_usage_stats(c, t) ==
    [c |-> reset_counters(c, t),
     stats |-> [daily |-> reset_counters(c, t).daily_usage,
                hourly |-> reset_counters(c, t).hourly_usage,
                limits |-> [daily |-> daily_limits, hourly |-> hourly_limits]]]

\* ------------------------------------------------------ security.RateLimiter
\* A RateLimiter is a record r: max_requests, window_seconds and requests
\* (defaultdict(deque), keyed by identifier).
is_allowed(r, identifier, t) ==
    LET window_start == t - r.window_seconds
        client_requests == popleft_old(r.requests[identifier], window_start)
        current_requests == Len(client_requests)
        allowed == current_requests < r.max_requests
        kept == IF allowed THEN Append(client_requests, t) ELSE client_requests
    IN  [r |-> [r EXCEPT !.requests[identifier] = kept],
         allowed |-> allowed,
         info |-> [limit |-> r.max_requests,
                   remaining |-> Max(0, r.max_requests - current_requests
                                        - (IF allowed THEN 1 ELSE 0)),
                   reset |-> IF Len(kept) > 0 THEN window_start + r.window_seconds ELSE t,
                   retry_after |-> IF ~allowed /\ Len(kept) > 0
                                   THEN Max(1, kept[1] + r.window_seconds - t)
                                   ELSE 0]]

\* --------------------------------------------------------- ResourceMonitor
\* The monitor's state is a record mon: last_check.
CHECK_INTERVAL == 30
CPU_THRESHOLD == 80
MEMORY_THRESHOLD == 80
DISK_THRESHOLD == 90

\* The readings check_resources returns: {} within check_interval of the last
\* check, the fixed values otherwise.
NoReadings == [k \in {} |-> 0]

Readings ==
    [cpu_usage |-> 0, memory_usage |-> 0, disk_usage |-> 0, active_connections |-> 0]

check_resources(mon, t) ==
    IF t - mon.last_check < CHECK_INTERVAL
    THEN [mon |-> mon, resources |-> NoReadings]
    ELSE [mon |-> [mon EXCEPT !.last_check = t], resources |-> Readings]

\* resources.get(key, 0)
reading(resources, key) == IF key \in DOMAIN resources THEN resources[key] ELSE 0

should_throttle(resources) ==
    \/ reading(resources, "cpu_usage") > CPU_THRESHOLD
    \/ reading(resources, "memory_usage") > MEMORY_THRESHOLD
    \/ reading(resources, "disk_usage") > DISK_THRESHOLD

\* ---------------------------------------------------- check_abuse_protection
\* JSONResponse(status_code=..., content=...): content is the JSON object, a
\* function of its keys; the headers are those JSONResponse sets by itself.
JSONResponse(status_code, content) ==
    [status_code |-> status_code, content |-> content,
     headers |-> {"content-length", "content-type"}]

\* error_response is None.
NoResponse == [status_code |-> None, content |-> NoReadings, headers |-> {}]

\* What check_abuse_protection leaves: the limiter's state s, the ledger c,
\* the monitor mon, and the pair (is_allowed, error_response) it returns.
Verdict(s, c, mon, allowed, response) ==
    [s |-> s, c |-> c, mon |-> mon, allowed |-> allowed, response |-> response]

\* The except clause: return True, None.
fail_open(s, c, mon) == Verdict(s, c, mon, TRUE, NoResponse)

\* The step of the try block that raises an exception, if any: those of
\* check_request, "record_error", "resources" (check_resources) or "cost"
\* (check_limits).
ProtectionFaults == Faults \cup {"record_error", "resources", "cost"}

\* reason or "Rate limit exceeded"
reason_or_default(reason) ==
    IF reason \in {"None", ""} THEN "Rate limit exceeded" ELSE reason

rate_limit_response(r) ==
    JSONResponse(429, [message |-> reason_or_default(r.reason),
                       error_code |-> "RATE_LIMIT_EXCEEDED",
                       details |-> r.rate_info])

overloaded_response ==
    JSONResponse(503, [message |-> "Service temporarily unavailable due to high load",
                       error_code |-> "SERVICE_OVERLOADED",
                       retry_after |-> 60])

cost_limit_response(k) ==
    JSONResponse(429, [message |-> k.reason, error_code |-> "COST_LIMIT_EXCEEDED"])

\* After cost_protection.check_limits("qr_generations") returned k.
cost_verdict(s, k, mon) ==
    IF ~k.allowed
    THEN Verdict(s, k.c, mon, FALSE, cost_limit_response(k))
    ELSE Verdict(s, k.c, mon, TRUE, NoResponse)

\* The cost check, made for a path that contains /qr/generate.
protection_cost(s, c, mon, rq, t, fault) ==
    IF ~RequestFacts[rq].qr_path
    THEN Verdict(s, c, mon, TRUE, NoResponse)
    ELSE IF fault = "cost"
    THEN fail_open(s, c, mon)
    ELSE cost_verdict(s, check_limits(c, "qr_generations", 1, t), mon)

\* After resource_monitor.check_resources() returned m.
protection_resources(s, c, m, rq, t, fault) ==
    IF should_throttle(m.resources)
    THEN Verdict(s, c, m.mon, FALSE, overloaded_response)
    ELSE protection_cost(s, c, m.mon, rq, t, fault)

\* The generation charged before the gate's denial is answered.
protection_after_gate_charging_first(r, c, mon, rq, ip, t, fault) ==
    IF r.raised
    THEN fail_open(r.s, c, mon)
    ELSE IF ~r.allowed
    THEN IF fault = "record_error"
         THEN fail_open(r.s, c, mon)
         ELSE Verdict(record_error(r.s, ip, t),
                      IF RequestFacts[rq].qr_path
                      THEN check_limits(c, "qr_generations", 1, t).c ELSE c,
                      mon, FALSE, rate_limit_response(r))
    ELSE IF fault = "resources"
    THEN fail_open(r.s, c, mon)
    ELSE protection_resources(r.s, c, check_resources(mon, t), rq, t, fault)
\* The gate's denial answered without record_error.
protection_after_gate_unrecorded(r, c, mon, rq, ip, t, fault) ==
    IF r.raised
    THEN fail_open(r.s, c, mon)
    ELSE IF ~r.allowed
    THEN IF fault = "record_error"
         THEN fail_open(r.s, c, mon)
         ELSE Verdict(r.s, c, mon, FALSE, rate_limit_response(r))
    ELSE IF fault = "resources"
    THEN fail_open(r.s, c, mon)
    ELSE protection_resources(r.s, c, check_resources(mon, t), rq, t, fault)
\* An exception of record_error let through as a denial.
protection_after_gate_failing_closed(r, c, mon, rq, ip, t, fault) ==
    IF r.raised
    THEN fail_open(r.s, c, mon)
    ELSE IF ~r.allowed
    THEN Verdict(IF fault = "record_error" THEN r.s ELSE record_error(r.s, ip, t),
                 c, mon, FALSE, rate_limit_response(r))
    ELSE IF fault = "resources"
    THEN fail_open(r.s, c, mon)
    ELSE protection_resources(r.s, c, check_resources(mon, t), rq, t, fault)

\* After check_request returned r, or raised.
protection_after_gate(r, c, mon, rq, ip, t, fault) ==
    IF r.raised
    THEN fail_open(r.s, c, mon)
    ELSE IF ~r.allowed
    THEN IF fault = "record_error"
         THEN fail_open(r.s, c, mon)
         ELSE Verdict(record_error(r.s, ip, t), c, mon, FALSE, rate_limit_response(r))
    ELSE IF fault = "resources"
    THEN fail_open(r.s, c, mon)
    ELSE protection_resources(r.s, c, check_resources(mon, t), rq, t, fault)

\* check_abuse_protection(request), with client_ip already resolved.  None of
\* the coroutines it awaits suspends.
check_abuse_protection(s, c, mon, rq, ip, t, fault) ==
    protection_after_gate(
        check_request(s, rq, ip, t, IF fault \in Faults THEN fault ELSE "none"),
        c, mon, rq, ip, t, fault)

\* ------------------------------------------------ _add_protection_headers
\* A response to which dispatch has added nothing.
NoHeaders == [k \in {} |-> <<>>]

\* The headers _add_protection_headers sets on the response of a request of
\* ip: the three of the limiter when ip has a record, and X-Protected-By.
\* (No response carries X-Request-Path, so Cache-Control is never set.)
add_protection_headers(s, ip, t) ==
    IF ip \in DOMAIN s.cm
    THEN [k \in {"X-RateLimit-Remaining", "X-RateLimit-Reset", "X-Threat-Level",
                 "X-Protected-By"} |->
            IF k = "X-RateLimit-Remaining"
            THEN str_int(Max(0, 30 - s.cm[ip].request_count))
            ELSE IF k = "X-RateLimit-Reset" THEN str_int(t + 60)
            ELSE IF k = "X-Threat-Level" THEN s.cm[ip].threat_level
            ELSE "QR-Studio-Abuse-Protection"]
    ELSE [k \in {"X-Protected-By"} |-> "QR-Studio-Abuse-Protection"]

\* ------------------------------------------------------------------- state
VARIABLES
    client_metrics,       \* AdvancedRateLimiter.client_metrics
    blocked_ips,          \* AdvancedRateLimiter.blocked_ips
    concurrent_requests,  \* AdvancedRateLimiter.concurrent_requests
    time_windows,         \* AdvancedRateLimiter._time_windows
    orphans,              \* metrics objects held only by suspended calls
    pending,              \* check_request calls suspended at their await
    esc_calls,            \* history: escalation calls per identifier
    resets,               \* history: reset_limits calls
    admissions,           \* history: the instants the limiters called on their
                          \* own admitted a check, per limiter
    handling,             \* dispatch calls suspended in call_next, per identifier
    resource_monitor,     \* the ResourceMonitor instance
    cost,                 \* the CostProtection instance
    limiter,              \* a security.RateLimiter instance
    now,                  \* the wall clock
    last                  \* the step taken last and what it returned

vars == <<client_metrics, blocked_ips, concurrent_requests, time_windows, orphans,
          pending, esc_calls, resets, admissions, handling, resource_monitor, cost,
          limiter, now, last>>

dispatch_vars == <<handling, resource_monitor>>

gate_vars == <<client_metrics, blocked_ips, concurrent_requests, time_windows,
               orphans, esc_calls>>

\* The limiter's state as the handlers take it.
S == [cm |-> client_metrics, blocked |-> blocked_ips, conc |-> concurrent_requests,
      tw |-> time_windows, orph |-> orphans, esc |-> esc_calls,
      ev_esc |-> 0, ev_blk |-> None]

Commit(s) ==
    /\ client_metrics' = s.cm
    /\ blocked_ips' = s.blocked
    /\ concurrent_requests' = s.conc
    /\ time_windows' = s.tw
    /\ orphans' = s.orph
    /\ esc_calls' = s.esc

\* A handler returned r (its s the limiter's state): the state is stored and
\* the step noted.  ref is the metrics object a resumed call held.
Returned(op, ip, rq, ref, r) ==
    /\ Commit(r.s)
    /\ last' = [op |-> op, ip |-> ip, req |-> rq, ref |-> ref, cost |-> 0,
                fault |-> "none", response |-> NoResponse, headers |-> NoHeaders,
                allowed |-> r.allowed,
                reason |-> r.reason, raised |-> r.raised,
                esc |-> r.s.ev_esc, blk |-> r.s.ev_blk]

NoStep == [op |-> "init", ip |-> "", req |-> "", ref |-> 0, cost |-> 0,
           fault |-> "none", response |-> NoResponse, headers |-> NoHeaders,
           allowed |-> TRUE,
           reason |-> "None", raised |-> FALSE, esc |-> 0, blk |-> None]

InitGate ==
    /\ client_metrics = [x \in {} |-> AbuseMetrics(0)]
    /\ blocked_ips = {}
    /\ concurrent_requests = [x \in IPs |-> 0]
    /\ time_windows = [k \in Keys |-> <<>>]
    /\ orphans = [x \in {} |-> AbuseMetrics(0)]
    /\ pending = EmptyBag
    /\ esc_calls = [x \in IPs |-> 0]
    /\ admissions = [op \in {"check_time_window_limit", "is_allowed"} |-> <<>>]

\* No dispatch call is under way; ResourceMonitor.__init__.
InitDispatch ==
    /\ handling = [x \in IPs |-> [first |-> 0, again |-> 0]]
    /\ resource_monitor = [last_check |-> 0]

InitCost ==
    cost = [daily_usage |-> NoUsage, hourly_usage |-> NoUsage,
            last_reset |-> [daily |-> 0, hourly |-> 0]]

\* The RateLimiter SecurityMiddleware builds by default.
InitLimiter ==
    limiter = [max_requests |-> 100, window_seconds |-> 60,
               requests |-> [x \in IPs |-> <<>>]]

Init ==
    /\ InitGate /\ InitCost /\ InitLimiter /\ InitDispatch
    /\ resets = 0
    /\ now = Epoch
    /\ last = NoStep

\* ----------------------------------------------------------------- actions
\* check_request(request, client_ip), run to its return without a task switch.
CheckRequest(ip, rq, fault) ==
    /\ Returned("check_request", ip, rq, 0, check_request(S, rq, ip, now, fault))
    /\ UNCHANGED <<pending, resets, admissions, cost, limiter, now, dispatch_vars>>

\* record_error(client_ip, error_type)
RecordError(ip) ==
    /\ Returned("record_error", ip, "", 0, Denied(record_error(S, ip, now), "None"))
    /\ UNCHANGED <<pending, resets, admissions, cost, limiter, now, dispatch_vars>>

\* _escalate_threat_level(client_ip, reason) called on its own.
Escalate(ip) ==
    /\ Returned("escalate", ip, "", 0, Denied(escalate_threat_level(S, ip, now), "None"))
    /\ UNCHANGED <<pending, resets, admissions, cost, limiter, now, dispatch_vars>>
\* POST /admin/unblock-ip/{ip_address}
UnblockIp(ip) ==
    /\ Returned("unblock_ip", ip, "", 0, Denied(unblock_ip(S, ip), "None"))
    /\ UNCHANGED <<pending, resets, admissions, cost, limiter, now, dispatch_vars>>

\* check_request(request, client_ip) up to its await.  The call returns there
\* (blocked, or too many concurrent requests) or is suspended: the event loop
\* may run other tasks before it resumes the call.
Enter(ip, rq) ==
    /\ Returned(IF check_request_enter(S, ip, now).done THEN "check_request" ELSE "await",
                ip, rq, 0, check_request_enter(S, ip, now).res)
    /\ pending' = IF check_request_enter(S, ip, now).done THEN pending
                  ELSE pending (+) SetToBag({Call(ip, rq, now, 0)})
    /\ UNCHANGED <<resets, admissions, cost, limiter, now, dispatch_vars>>

\* A suspended check_request call c resumes and runs to its return.  An object
\* no suspended call holds any more is garbage.
Resume(c, fault) ==
    /\ BagIn(c, pending)
    /\ pending' = pending (-) SetToBag({c})
    /\ Returned("resume", c.ip, c.rq, c.ref,
                held_only(check_request_body(S, c.rq, c.ip, c.ref, c.t, fault),
                          pending (-) SetToBag({c})))
    /\ UNCHANGED <<resets, admissions, cost, limiter, now, dispatch_vars>>

\* POST /admin/reset-limits.  The objects client_metrics.clear() drops stay
\* alive in the suspended calls that hold them.
ResetLimits ==
    /\ Returned("reset_limits", "", "", 0, Denied(reset_rate_limiter(S, pending), "None"))
    /\ pending' = orphaned(pending, orphans)
    /\ cost' = [cost EXCEPT !.daily_usage = NoUsage, !.hourly_usage = NoUsage]
    /\ resets' = resets + 1
    /\ UNCHANGED <<admissions, limiter, now, dispatch_vars>>

\* _check_time_window_limit(key, limit, window_seconds) called on its own, with
\* the limit and the window of `limiter`.
WindowCheck(key) ==
    /\ time_windows' =
         [time_windows EXCEPT ![key] =
             check_time_window_limit(S, key, limiter.max_requests,
                                     limiter.window_seconds, now).window]
    /\ last' = [NoStep EXCEPT
                  !.op = "check_time_window_limit", !.ip = key[1],
                  !.allowed = check_time_window_limit(S, key, limiter.max_requests,
                                                      limiter.window_seconds, now).ok]
    /\ admissions' =
         [admissions EXCEPT !["check_time_window_limit"] =
             IF check_time_window_limit(S, key, limiter.max_requests,
                                        limiter.window_seconds, now).ok
             THEN Append(@, now) ELSE @]
    /\ UNCHANGED <<client_metrics, blocked_ips, concurrent_requests, orphans, pending,
                   esc_calls, resets, cost, limiter, now, dispatch_vars>>

\* RateLimiter.is_allowed(identifier)
IsAllowed(identifier) ==
    /\ limiter' = is_allowed(limiter, identifier, now).r
    /\ last' = [NoStep EXCEPT !.op = "is_allowed", !.ip = identifier,
                              !.allowed = is_allowed(limiter, identifier, now).allowed]
    /\ admissions' =
         [admissions EXCEPT !["is_allowed"] =
             IF is_allowed(limiter, identifier, now).allowed THEN Append(@, now) ELSE @]
    /\ UNCHANGED <<gate_vars, pending, resets, cost, now, dispatch_vars>>

\* CostProtection.check_limits(operation, amount)
CheckLimits(operation, amount) ==
    /\ cost' = check_limits(cost, operation, amount, now).c
    /\ last' = [NoStep EXCEPT
                  !.op = "check_limits", !.req = operation, !.cost = amount,
                  !.allowed = check_limits(cost, operation, amount, now).allowed,
                  !.reason = check_limits(cost, operation, amount, now).reason]
    /\ UNCHANGED <<gate_vars, pending, resets, admissions, limiter, now, dispatch_vars>>

\* CostProtection.get_usage_stats()
GetUsageStats ==
    /\ cost' = get_usage_stats(cost, now).c
    /\ last' = [NoStep EXCEPT !.op = "get_usage_stats"]
    /\ UNCHANGED <<gate_vars, pending, resets, admissions, limiter, now, dispatch_vars>>

\* AbuseProtectionMiddleware.dispatch up to its call_next, with the protection
\* enabled: check_abuse_protection returned v.  A denial with its response is
\* returned to the client; otherwise the request goes on to call_next, where
\* the call is suspended while the application handles the request.
Dispatched(ip, rq, fault, v) ==
    /\ Commit(v.s)
    /\ cost' = v.c
    /\ resource_monitor' = v.mon
    /\ handling' = IF ~v.allowed /\ v.response # NoResponse THEN handling
                   ELSE [handling EXCEPT ![ip].first = @ + 1]
    /\ last' = [NoStep EXCEPT !.op = "dispatch", !.ip = ip, !.req = rq,
                              !.fault = fault, !.allowed = v.allowed,
                              !.response = v.response,
                              !.esc = v.s.ev_esc, !.blk = v.s.ev_blk]
    /\ UNCHANGED <<pending, resets, admissions, limiter, now>>

Dispatch(ip, rq, fault) ==
    Dispatched(ip, rq, fault,
               check_abuse_protection(S, cost, resource_monitor, rq, ip, now, fault))

\* dispatch from the return of call_next on; s is the limiter's state after
\* _record_request_metrics.  The response goes out with the headers of
\* _add_protection_headers.
Completed(ip, s) ==
    /\ Commit(s)
    /\ last' = [NoStep EXCEPT !.op = "complete", !.ip = ip, !.allowed = FALSE,
                              !.esc = s.ev_esc, !.blk = s.ev_blk,
                              !.headers = add_protection_headers(s, ip, now)]

\* call_next returned a response with status_code to a dispatch call of ip:
\* _record_request_metrics, _add_protection_headers, and dispatch returns the
\* response.
Complete(ip, status_code) ==
    /\ handling[ip].first > 0
    /\ handling' = [handling EXCEPT ![ip].first = @ - 1]
    /\ Completed(ip, IF status_code >= 400 THEN record_error(S, ip, now) ELSE S)
    /\ UNCHANGED <<pending, resets, admissions, cost, limiter, now, resource_monitor>>

\* The except clause answering at once, without a second call_next.
Failed_without_retry(ip) ==
    /\ handling[ip].first > 0
    /\ handling' = [handling EXCEPT ![ip].first = @ - 1]
    /\ Returned("except", ip, "", 0, Denied(record_error(S, ip, now), "None"))
    /\ UNCHANGED <<pending, resets, admissions, cost, limiter, now, resource_monitor>>
\* call_next raised in a dispatch call of ip: the except clause records the
\* error and calls call_next once more.
Failed(ip) ==
    /\ handling[ip].first > 0
    /\ handling' = [handling EXCEPT ![ip].first = @ - 1, ![ip].again = @ + 1]
    /\ Returned("except", ip, "", 0, Denied(record_error(S, ip, now), "None"))
    /\ UNCHANGED <<pending, resets, admissions, cost, limiter, now, resource_monitor>>

\* The response call_next returns, of which dispatch reads status_code and
\* headers.
Downstream(status_code) ==
    [status_code |-> status_code, content |-> NoReadings, headers |-> {}]

\* call_next returned a response with status_code to a dispatch call of ip,
\* and a statement after it raised: _record_request_metrics has called
\* record_error for a status from 400 on, and the except clause records its
\* error and calls call_next once more.
FailedLater(ip, status_code) ==
    /\ handling[ip].first > 0
    /\ handling' = [handling EXCEPT ![ip].first = @ - 1, ![ip].again = @ + 1]
    /\ LET s == record_error(IF status_code >= 400 THEN record_error(S, ip, now)
                             ELSE S, ip, now)
       IN  /\ Commit(s)
           /\ last' = [NoStep EXCEPT !.op = "except", !.ip = ip,
                                     !.esc = s.ev_esc, !.blk = s.ev_blk,
                                     !.response = Downstream(status_code)]
    /\ UNCHANGED <<pending, resets, admissions, cost, limiter, now, resource_monitor>>

\* The second call_next returned a response with status_code, or raised
\* (status_code = None), and dispatch returns that response or its own 500.
RetriedWith(ip, status_code) ==
    /\ handling[ip].again > 0
    /\ handling' = [handling EXCEPT ![ip].again = @ - 1]
    /\ last' = [NoStep EXCEPT
                  !.op = "retried", !.ip = ip,
                  !.raised = (status_code = None),
                  !.response =
                      IF status_code = None
                      THEN JSONResponse(500, [message |-> "Internal server error",
                                              error_code |-> "INTERNAL_ERROR"])
                      ELSE Downstream(status_code)]
    /\ UNCHANGED <<gate_vars, pending, resets, admissions, resource_monitor, cost, limiter, now>>

\* The second call_next returned or raised, and dispatch returns.
Retried(ip) == \E status_code \in {200, 500, None} : RetriedWith(ip, status_code)

\* The clock advances to Epoch + t.
Tick(t) ==
    /\ now < Epoch + t
    /\ now' = Epoch + t
    /\ last' = [NoStep EXCEPT !.op = "tick"]
    /\ UNCHANGED <<gate_vars, pending, resets, admissions, cost, limiter, dispatch_vars>>

\* The counters of every record stay within the bounds of the behaviour.
Within(requests, errors, violations) ==
    /\ \A ip \in DOMAIN client_metrics :
        /\ client_metrics[ip].request_count <= requests
        /\ client_metrics[ip].error_count <= errors
        /\ client_metrics[ip].large_file_count <= requests
        /\ Len(client_metrics[ip].violations) <= violations
    /\ \A k \in Keys : Len(time_windows[k]) <= requests
    /\ \A k \in DOMAIN orphans :
        orphans[k].request_count <= requests /\ orphans[k].large_file_count <= requests
    /\ Cardinality(DOMAIN orphans) <= MaxOrphans
    /\ resets <= MaxResets

\* --------------------------------------------------------------- the gate
\* One client and the administrator; the instants at which anything happens
\* are Epoch plus an offset of SpecInstants.
SpecIPs == {"a"}
SpecRequests == {"presets_get", "curl_get"}
SpecInstants == {299, 300}
SpecBounds == Within(MaxRequests, MaxErrors, MaxViolations)

Next ==
    \/ \E ip \in SpecIPs, rq \in SpecRequests : CheckRequest(ip, rq, "none") /\ SpecBounds'
    \/ \E ip \in SpecIPs : RecordError(ip) /\ SpecBounds'
    \/ \E ip \in SpecIPs : UnblockIp(ip)
    \/ ResetLimits /\ SpecBounds'
    \/ \E t \in SpecInstants : Tick(t)

Spec == Init /\ [][Next]_vars

\* The identifier is in the blocked set and its block has not run out.
Blocked(ip) ==
    /\ ip \in blocked_ips
    /\ ip \in DOMAIN client_metrics
    /\ client_metrics[ip].blocked_until # None
    /\ now < client_metrics[ip].blocked_until

\* The identifier is in the blocked set and its block has run out.
BlockExpired(ip) ==
    /\ ip \in blocked_ips
    /\ ip \in DOMAIN client_metrics
    /\ client_metrics[ip].blocked_until # None
    /\ now >= client_metrics[ip].blocked_until

\* C3: a check_request call for an identifier that is in the blocked set with
\* now < blocked_until is denied with the reason 'IP temporarily blocked due
\* to abuse'; no such request is admitted.
BlockedIsDenied ==
    [][\A ip \in IPs :
          (last'.op = "check_request" /\ last'.ip = ip /\ Blocked(ip)) =>
              /\ ~last'.allowed
              /\ ~last'.raised
              /\ last'.reason = "IP temporarily blocked due to abuse"]_vars

\* A request was denied one second before its identifier's block ran out.
DeniedWhileBlocked ==
    /\ last.op = "check_request"
    /\ last.reason = "IP temporarily blocked due to abuse"
    /\ Blocked(last.ip)
    /\ now = client_metrics[last.ip].blocked_until - 1

\* C5 as the specification states it: the first three escalation calls on a
\* fresh identifier leave it outside the blocked set.
ThreeEscalationsLeaveUnblocked ==
    \A ip \in IPs : esc_calls[ip] \in 1..3 => ip \notin blocked_ips

\* C5 as the code has it: of the consecutive escalation calls on an identifier
\* at LOW, the first two leave it outside the blocked set (at MEDIUM, then at
\* HIGH), and the third moves it to CRITICAL, adds it to the blocked set and
\* sets blocked_until = now + 300 when it has at most 5 violations.
ThirdEscalationBlocks ==
    [][\A ip \in IPs :
          /\ esc_calls'[ip] = 0 /\ ip \in DOMAIN client_metrics' =>
                client_metrics'[ip].threat_level = LOW /\ ip \notin blocked_ips'
          /\ esc_calls'[ip] = 1 =>
                client_metrics'[ip].threat_level = MEDIUM /\ ip \notin blocked_ips'
          /\ esc_calls'[ip] = 2 =>
                client_metrics'[ip].threat_level = HIGH /\ ip \notin blocked_ips'
          /\ (esc_calls[ip] < 3 /\ esc_calls'[ip] >= 3) =>
                /\ client_metrics'[ip].threat_level = CRITICAL
                /\ ip \in blocked_ips'
                /\ last'.blk # None
                /\ last'.blk <= 5 => client_metrics'[ip].blocked_until = now + 300]_vars

\* The third escalation call has just blocked the identifier for 300 s.
BlockedByThirdEscalation ==
    /\ last.op = "check_request"
    /\ last.esc = 1
    /\ esc_calls[last.ip] = 3
    /\ last.ip \in blocked_ips
    /\ client_metrics[last.ip].threat_level = CRITICAL
    /\ client_metrics[last.ip].blocked_until = now + 300

\* C6: a check_request call for an identifier that is in the blocked set at
\* now >= blocked_until removes it from the set and clears blocked_until; the
\* call goes on through the concurrency check, the pattern checks and the
\* endpoint limit, and is admitted when a slot is free, the request trips no
\* denying pattern and its window has room.
ExpiredBlockIsLifted ==
    [][\A ip \in IPs :
          (last'.op = "check_request" /\ last'.ip = ip /\ BlockExpired(ip)) =>
              /\ ip \notin blocked_ips'
              /\ client_metrics'[ip].blocked_until = None
              /\ last'.reason # "IP temporarily blocked due to abuse"
              /\ (/\ concurrent_requests[ip] < MAX_CONCURRENT_REQUESTS
                  /\ Len(SelectSeq(time_windows[<<ip, "general">>],
                                    LAMBDA x : x >= now - ENDPOINT_WINDOW))
                        < REQUESTS_PER_MINUTE)
                 => last'.allowed]_vars

\* A request arrived at the very instant blocked_until and was admitted.
AdmittedAtExpiry ==
    /\ last.op = "check_request"
    /\ last.allowed
    /\ last.ip \notin blocked_ips
    /\ client_metrics[last.ip].threat_level = CRITICAL
    /\ client_metrics[last.ip].blocked_until = None
    /\ now = Epoch + 300

\* ------------------------------------------------------ sliding windows
\* C15: admin unblock of an identifier in the blocked set takes it out of the
\* set, sets its threat level to LOW and clears blocked_until, and leaves its
\* violations, request_count, error_count and large_file_count as they were;
\* admin unblock of an identifier that is not in the blocked set changes
\* nothing.
UnblockResetsLevelKeepsHistory ==
    [][\A ip \in IPs :
         (last'.op = "unblock_ip" /\ last'.ip = ip) =>
            IF ip \in blocked_ips
            THEN /\ blocked_ips' = blocked_ips \ {ip}
                 /\ DOMAIN client_metrics' = DOMAIN client_metrics
                 /\ ip \in DOMAIN client_metrics
                 /\ client_metrics'[ip].threat_level = LOW
                 /\ client_metrics'[ip].blocked_until = None
                 /\ client_metrics'[ip].violations = client_metrics[ip].violations
                 /\ client_metrics'[ip].request_count = client_metrics[ip].request_count
                 /\ client_metrics'[ip].error_count = client_metrics[ip].error_count
                 /\ client_metrics'[ip].large_file_count
                        = client_metrics[ip].large_file_count
            ELSE UNCHANGED <<client_metrics, blocked_ips, concurrent_requests,
                             time_windows, cost, limiter>>]_vars

\* A client blocked on its third violation was unblocked by the admin: it is
\* at LOW, out of the blocked set, with its violations and requests on record.
UnblockedWithHistory ==
    /\ last.op = "unblock_ip"
    /\ last.ip \in DOMAIN client_metrics
    /\ last.ip \notin blocked_ips
    /\ client_metrics[last.ip].threat_level = LOW
    /\ client_metrics[last.ip].blocked_until = None
    /\ Len(client_metrics[last.ip].violations) >= 3
    /\ client_metrics[last.ip].request_count >= 3

\* The two sliding-window limiters, driven with one limit N and one window W
\* that the behaviour fixes at its start.
InitWindow ==
    /\ InitGate /\ InitCost /\ InitDispatch
    /\ limiter \in {[max_requests |-> n, window_seconds |-> w,
                      requests |-> [x \in IPs |-> <<>>]] :
                        n \in 1..MaxLimit, w \in 1..MaxWindow}
    /\ resets = 0
    /\ now = Epoch
    /\ last = NoStep

WindowKey == <<"a", "general">>

NextWindow ==
    \/ WindowCheck(WindowKey)
    \/ IsAllowed("a")
    \/ \E t \in 1..(MaxWindow + 1) : Tick(t)

SpecWindow == InitWindow /\ [][NextWindow]_vars

\* The timestamps the limiter that took the last step held before it.
WindowOf(op) ==
    IF op = "is_allowed" THEN limiter.requests["a"] ELSE time_windows[WindowKey]

\* C7: for a sliding window of limit N and length W, in _check_time_window_limit
\* and in RateLimiter.is_allowed alike: a check is admitted while fewer than N
\* checks were admitted, all at this instant; a check is denied when N
\* admissions lie within the window (none older than W); and a check is
\* admitted once the time has advanced past W beyond every admission.
SlidingWindowAdmitsNPerWindow ==
    [][(last'.op \in {"check_time_window_limit", "is_allowed"}) =>
         LET window == WindowOf(last'.op)
             N == limiter.max_requests
             W == limiter.window_seconds
         IN  /\ (Len(window) < N /\ \A i \in 1..Len(window) : window[i] = now)
                    => last'.allowed
             /\ (Len(window) = N /\ \A i \in 1..Len(window) : now - window[i] <= W)
                    => ~last'.allowed
             /\ (\A i \in 1..Len(window) : now - window[i] > W)
                    => last'.allowed]_vars

\* Both limiters admitted N checks at the first instant and a check W later
\* was denied.
DeniedAtEndOfWindow ==
    /\ limiter.max_requests = MaxLimit
    /\ now = Epoch + limiter.window_seconds
    /\ time_windows[WindowKey] = [i \in 1..MaxLimit |-> Epoch]
    /\ limiter.requests["a"] = [i \in 1..MaxLimit |-> Epoch]
    /\ last.op \in {"check_time_window_limit", "is_allowed"}
    /\ ~last.allowed

\* ------------------------------------------------------- QR generation
\* A client never seen before that sends benign requests only.
QRRequests == {"qr_post", "presets_get"}
QRBounds == Within(MaxQRRequests, 0, 0)

NextQR ==
    \/ \E ip \in SpecIPs, rq \in QRRequests : CheckRequest(ip, rq, "none") /\ QRBounds'
    \/ \E t \in {ENDPOINT_WINDOW, ENDPOINT_WINDOW + 1} : Tick(t)

SpecQR == Init /\ [][NextQR]_vars

\* C8: of the POSTs to /qr/generate that a fresh, benign client sends within
\* 60 s of its first request, check_request admits the first 10 and denies
\* the 11th with the reason 'QR generation rate limit exceeded'.
TenQRGenerationsPerMinute ==
    [][\A ip \in SpecIPs :
         (/\ last'.op = "check_request" /\ last'.ip = ip /\ last'.req = "qr_post"
          /\ ip \in DOMAIN client_metrics =>
                now <= client_metrics[ip].first_request_time + ENDPOINT_WINDOW)
         => LET posts == Len(time_windows[<<ip, "qr_generation">>])
            IN  /\ posts < 10 => last'.allowed
                /\ posts = 10 =>
                      /\ ~last'.allowed
                      /\ last'.reason = "QR generation rate limit exceeded"]_vars

\* Ten POSTs were admitted and nothing else; the 11th, 60 s after the first,
\* has just been denied.
EleventhQRDenied ==
    /\ last.op = "check_request"
    /\ last.req = "qr_post"
    /\ last.reason = "QR generation rate limit exceeded"
    /\ client_metrics[last.ip].request_count = 10
    /\ Len(time_windows[<<last.ip, "qr_generation">>]) = 10
    /\ now = client_metrics[last.ip].first_request_time + ENDPOINT_WINDOW

\* ------------------------------------------------------ the cost ledger
\* Operations with limits and without, consumed hour after hour until the
\* daily limit is reached, and over the end of the day.
CostCalls ==
    {<<"qr_generations", 1000>>, <<"qr_generations", 10001>>, <<"thumbnails", 10001>>}
CostInstants ==
    {k * (HOUR + 1) : k \in 1..CostHours} \cup {DAY - HOUR + 1, DAY + 1}
CostBounds == \A o \in Operations : cost.daily_usage[o] <= MaxUsage

NextCost ==
    \/ \E call \in CostCalls : CheckLimits(call[1], call[2]) /\ CostBounds'
    \/ \E t \in CostInstants : Tick(t)

SpecCost == Init /\ [][NextCost]_vars

\* C9 as the specification states it, on the counters as the call finds
\* them: when used + cost <= limit for the daily and for the hourly counter,
\* check_limits succeeds and increments both by exactly cost; when cost would
\* exceed either limit, it denies and leaves both counters unchanged.
ConsumesOrLeavesUnchanged ==
    [][last'.op = "check_limits" =>
         LET o == last'.req
             amount == last'.cost
             daily == cost.daily_usage[o]
             hourly == cost.hourly_usage[o]
             in_daily == o \in DOMAIN daily_limits => daily + amount <= daily_limits[o]
             in_hourly == o \in DOMAIN hourly_limits => hourly + amount <= hourly_limits[o]
         IN  /\ (in_daily /\ in_hourly) =>
                   /\ last'.allowed
                   /\ cost'.daily_usage[o] = daily + amount
                   /\ cost'.hourly_usage[o] = hourly + amount
             /\ ~(in_daily /\ in_hourly) =>
                   /\ ~last'.allowed
                   /\ cost'.daily_usage[o] = daily
                   /\ cost'.hourly_usage[o] = hourly]_vars

\* C9 as the code has it: check_limits(operation, cost), with `used` the
\* counter of the operation as the lazy reset at the head of the call leaves
\* it (0 when the counter's period has run out): when used + cost <= limit
\* for the daily and for the hourly counter, the call succeeds and both
\* counters are used + cost; when cost would exceed either limit, the call is
\* denied, names the daily limit first, and both counters are `used`, neither
\* incremented.
ConsumesExactlyOrNothing ==
    [][last'.op = "check_limits" =>
         LET o == last'.req
             amount == last'.cost
             daily == IF now - cost.last_reset.daily > 86400
                      THEN 0 ELSE cost.daily_usage[o]
             hourly == IF now - cost.last_reset.hourly > 3600
                       THEN 0 ELSE cost.hourly_usage[o]
             in_daily == o \in DOMAIN daily_limits => daily + amount <= daily_limits[o]
             in_hourly == o \in DOMAIN hourly_limits => hourly + amount <= hourly_limits[o]
         IN  /\ last'.allowed <=> (in_daily /\ in_hourly)
             /\ last'.allowed =>
                   /\ cost'.daily_usage[o] = daily + amount
                   /\ cost'.hourly_usage[o] = hourly + amount
             /\ ~last'.allowed =>
                   /\ cost'.daily_usage[o] = daily
                   /\ cost'.hourly_usage[o] = hourly
                   /\ last'.reason = IF in_daily THEN "Hourly limit exceeded"
                                     ELSE "Daily limit exceeded"
             /\ \A other \in Operations \ {o} :
                   /\ cost'.daily_usage[other] \in {0, cost.daily_usage[other]}
                   /\ cost'.hourly_usage[other] \in {0, cost.hourly_usage[other]}]_vars

\* The hourly limit has just denied an amount the daily limit had room for,
\* and the daily counter stands where it stood.
HourlyDenialConsumedNothing ==
    /\ last.op = "check_limits"
    /\ last.reason = "Hourly limit exceeded"
    /\ cost.hourly_usage[last.req] = 1000
    /\ cost.daily_usage[last.req] = 3000

\* ------------------------------------------------------------ blocking
\* A client that collects violations, one per request, and is escalated by
\* its user-agent.
BlockRequests == {"noaccept_get", "curl_get"}
BlockBounds == Within(MaxBlockViolations, 0, MaxBlockViolations)

NextBlock ==
    \/ \E ip \in SpecIPs, rq \in BlockRequests : CheckRequest(ip, rq, "none") /\ BlockBounds'
    \/ \E t \in {1} : Tick(t)

SpecBlock == Init /\ [][NextBlock]_vars

\* C10: the block duration is 300 s for a violation count <= 5, 900 s for 6
\* to 10, 3600 s for 11 to 20 and 86400 s from 21 on, so never shorter for
\* more violations; and the escalation that moves an identifier to CRITICAL
\* sets its blocked_until to now plus the duration for its violation count.
BlockDurationBySteps ==
    LET duration(n) == IF n <= 5 THEN 300
                       ELSE IF n <= 10 THEN 900
                       ELSE IF n <= 20 THEN 3600
                       ELSE 86400
    IN  /\ \A n \in 0..(MaxBlockViolations + 1) :
              /\ calculate_block_duration(n) = duration(n)
              /\ calculate_block_duration(n) <= calculate_block_duration(n + 1)
        /\ last.blk # None =>
              /\ client_metrics[last.ip].threat_level = CRITICAL
              /\ last.ip \in blocked_ips
              /\ client_metrics[last.ip].blocked_until = now + duration(last.blk)

\* An identifier with 21 violations has just been blocked for a day.
BlockedForADay ==
    /\ last.blk = 21
    /\ Len(client_metrics[last.ip].violations) = 21
    /\ client_metrics[last.ip].blocked_until = Epoch + 1 + 86400
    /\ now = Epoch + 1

\* ------------------------------------------------- the threat level ladder
\* One client whose requests and errors are counted far enough for
\* record_error to escalate (request_count > 10).
LevelsBounds == Within(ErrorRequests, ErrorErrors, 3)

NextLevels ==
    \/ \E ip \in SpecIPs, rq \in SpecRequests : CheckRequest(ip, rq, "none") /\ LevelsBounds'
    \/ \E ip \in SpecIPs : RecordError(ip) /\ LevelsBounds'
    \/ \E ip \in SpecIPs : UnblockIp(ip)
    \/ ResetLimits /\ LevelsBounds'
    \/ \E t \in {300} : Tick(t)

SpecLevels == Init /\ [][NextLevels]_vars

\* The place of the identifier's threat level in the order.
Rank(metrics, ip) ==
    IF ip \in DOMAIN metrics THEN ThreatRank(metrics[ip].threat_level) ELSE 0

\* C4: over requests, record_error calls and the escalations they make, the
\* threat level of an identifier never decreases in the order LOW < MEDIUM <
\* HIGH < CRITICAL, except that admin unblock sets it to LOW (and admin reset
\* deletes the record).
ThreatLevelOnlyRises ==
    [][\A ip \in IPs :
          \/ Rank(client_metrics', ip) >= Rank(client_metrics, ip)
          \/ last'.op = "unblock_ip" /\ last'.ip = ip
                /\ client_metrics'[ip].threat_level = LOW
          \/ last'.op = "reset_limits" /\ ip \notin DOMAIN client_metrics']_vars

\* record_error has just escalated an identifier that admin unblock had set
\* back to LOW.
EscalatedAgainAfterUnblock ==
    /\ last.op = "record_error"
    /\ last.esc = 1
    /\ client_metrics[last.ip].threat_level = MEDIUM
    /\ client_metrics[last.ip].blocked_until = None
    /\ Len(client_metrics[last.ip].violations) = 3

\* C17: record_error adds one to the identifier's error_count, and calls for
\* one threat escalation exactly when, the increment counted, request_count >
\* 10 and error_count / request_count > 0.5: the level then goes up one step
\* (CRITICAL stays); otherwise the threat level stays as it is.
ErrorRateEscalates ==
    [][\A ip \in IPs :
         (last'.op = "record_error" /\ last'.ip = ip) =>
            LET before == IF ip \in DOMAIN client_metrics THEN client_metrics[ip]
                          ELSE AbuseMetrics(0)
                after == client_metrics'[ip]
                high == /\ after.request_count > 10
                        /\ 2 * after.error_count > after.request_count
            IN  /\ after.error_count = before.error_count + 1
                /\ after.request_count = before.request_count
                /\ last'.esc = (IF high THEN 1 ELSE 0)
                /\ ThreatRank(after.threat_level) =
                      (IF high /\ before.threat_level # CRITICAL
                       THEN ThreatRank(before.threat_level) + 1
                       ELSE ThreatRank(before.threat_level))]_vars

\* The sixth error on eleven requests took the client from LOW to MEDIUM.
EscalatedOnErrorRate ==
    /\ last.op = "record_error"
    /\ last.esc = 1
    /\ client_metrics[last.ip].request_count = 11
    /\ client_metrics[last.ip].error_count = 6
    /\ client_metrics[last.ip].threat_level = MEDIUM

\* ------------------------------------------- the gate with suspended calls
\* check_request calls of one client that may be suspended at their await,
\* and the administrator's reset.
YieldRequests == {"large_post"}
YieldFaults == {"none", "patterns"}
YieldBounds == Within(MaxLargeFiles, 0, MaxViolations) /\ BagCardinality(pending) <= YieldPending

NextYield ==
    \/ \E ip \in SpecIPs, rq \in YieldRequests : Enter(ip, rq) /\ YieldBounds'
    \/ \E c \in BagToSet(pending), fault \in YieldFaults : Resume(c, fault) /\ YieldBounds'
    \/ ResetLimits /\ YieldBounds'

SpecYield == Init /\ [][NextYield]_vars

\* C1: the concurrency counter of every identifier is at least 0 in every
\* reachable state, however check_request calls (suspended at their await or
\* returning on any exit path) and reset_limits calls interleave.
CounterNeverNegative ==
    \A ip \in IPs : concurrent_requests[ip] >= 0

\* A call that took its slot before reset_limits cleared the counters has
\* resumed and released it: the counter is 0 before and after.
CounterClampedAfterReset ==
    /\ last.op = "resume"
    /\ last.ref > 0
    /\ pending = EmptyBag
    /\ concurrent_requests[last.ip] = 0

\* -------------------------------------------- check_request calls alone
\* The calls of one client, suspended at their await or not, with no other
\* operation between them.
CallsBounds == Within(MaxLargeFiles, 0, MaxViolations) /\ BagCardinality(pending) <= MaxPending

NextCalls ==
    \/ \E ip \in SpecIPs, rq \in YieldRequests, fault \in Faults :
          CheckRequest(ip, rq, fault) /\ CallsBounds'
    \/ \E ip \in SpecIPs, rq \in YieldRequests : Enter(ip, rq) /\ CallsBounds'
    \/ \E c \in BagToSet(pending), fault \in Faults : Resume(c, fault) /\ CallsBounds'

SpecCalls == Init /\ [][NextCalls]_vars

\* The suspended calls of ip.
InFlight(calls, ip) ==
    BagCardinality([c \in {x \in BagToSet(calls) : x.ip = ip} |-> CopiesIn(c, calls)])

\* C2: a check_request call leaves the counter of its identifier as it found
\* it on every exit path.  A call that returns before its await (blocked, or
\* too many concurrent requests) never changes it; a call that reaches its
\* await has incremented it by one, and on its way out (pattern denial,
\* endpoint denial, admission or exception) decrements it by exactly one; so
\* the counter always equals the number of calls between increment and exit.
CounterRestoredOnEveryExit ==
    [][/\ last'.op = "check_request" => concurrent_requests' = concurrent_requests
       /\ last'.op = "await" =>
            concurrent_requests' = [concurrent_requests EXCEPT ![last'.ip] = @ + 1]
       /\ last'.op = "resume" =>
            concurrent_requests' = [concurrent_requests EXCEPT ![last'.ip] = @ - 1]
       /\ \A ip \in IPs : concurrent_requests'[ip] = InFlight(pending', ip)]_vars

\* A call raised an exception while four other calls of the identifier were
\* in flight.
CounterRestoredAfterException ==
    /\ last.op = "resume"
    /\ last.raised
    /\ concurrent_requests[last.ip] = MAX_CONCURRENT_REQUESTS - 1

\* request_count of ip, 0 while it has no record.
Counted(ip) ==
    IF ip \in DOMAIN client_metrics THEN client_metrics[ip].request_count ELSE 0

\* The entries of the three sliding windows of ip.
Entries(ip) ==
    sum_over([c \in Categories |-> Len(time_windows[<<ip, c>>])], Categories)

\* C18: however the check_request calls of an identifier interleave, no
\* update is lost: every admitted call adds one to request_count and one
\* entry, its own instant, to the sliding window of its category, no other
\* exit of a call changes either; so request_count is the number of requests
\* admitted since the record was created, and the windows hold one entry for
\* each of them (no time passes here, so each is within its window).
NoLostUpdates ==
    [][\A ip \in IPs :
         LET admitted == /\ last'.op \in {"check_request", "resume"}
                         /\ last'.ip = ip
                         /\ last'.allowed
         IN  /\ Counted(ip)' = Counted(ip) + (IF admitted THEN 1 ELSE 0)
             /\ \A c \in Categories :
                   time_windows'[<<ip, c>>] =
                      IF admitted /\ c = RequestFacts[last'.req].category
                      THEN Append(time_windows[<<ip, c>>], now)
                      ELSE time_windows[<<ip, c>>]
             /\ Counted(ip)' = Entries(ip)']_vars

\* Three calls were admitted while two more calls of the client were
\* suspended at their await.
AdmittedBetweenSuspendedCalls ==
    /\ last.op = "resume"
    /\ last.allowed
    /\ BagCardinality(pending) >= 2
    /\ Counted(last.ip) = 3
    /\ Entries(last.ip) = 3

\* --------------------------------------------------- the ledger's two clocks
\* check_limits and get_usage_stats calls around the ends of an hour and of a
\* day after the first call.
UsageCalls == {<<"qr_generations", 1000>>, <<"file_uploads", 100>>}
UsageInstants == {HOUR, HOUR + 1, DAY, DAY + 1, DAY + HOUR + 1, DAY + HOUR + 2}
UsageBounds == \A o \in Operations : cost.daily_usage[o] <= MaxLedger

NextUsage ==
    \/ \E call \in UsageCalls : CheckLimits(call[1], call[2]) /\ UsageBounds'
    \/ GetUsageStats
    \/ \E t \in UsageInstants : Tick(t)

SpecUsage == Init /\ [][NextUsage]_vars

\* C19: on every check_limits and get_usage_stats call the daily counters are
\* cleared, and the daily reset time set to now, exactly when more than 86400
\* s have passed since the last daily reset, and the hourly counters exactly
\* when more than 3600 s have passed since the last hourly reset; neither
\* reset touches the counters of the other period.  What an admitted
\* check_limits consumes is added after the reset.
LazyResetsOnTwoClocks ==
    [][last'.op \in {"check_limits", "get_usage_stats"} =>
         LET daily_due == now - cost.last_reset.daily > 86400
             hourly_due == now - cost.last_reset.hourly > 3600
             consumes(o) == IF last'.op = "check_limits" /\ last'.allowed /\ last'.req = o
                            THEN last'.cost ELSE 0
         IN  /\ cost'.last_reset.daily =
                   (IF daily_due THEN now ELSE cost.last_reset.daily)
             /\ cost'.last_reset.hourly =
                   (IF hourly_due THEN now ELSE cost.last_reset.hourly)
             /\ \A o \in Operations :
                   /\ cost'.daily_usage[o] =
                         (IF daily_due THEN 0 ELSE cost.daily_usage[o]) + consumes(o)
                   /\ cost'.hourly_usage[o] =
                         (IF hourly_due THEN 0 ELSE cost.hourly_usage[o]) + consumes(o)]_vars

\* A get_usage_stats call a day and a second after the daily reset, and a
\* second after the hourly one, cleared the daily counters and kept the
\* hourly ones.
DailyClearedHourlyKept ==
    /\ last.op = "get_usage_stats"
    /\ cost.last_reset.daily = now
    /\ cost.last_reset.hourly = now - 1
    /\ cost.daily_usage["qr_generations"] = 0
    /\ cost.hourly_usage["qr_generations"] = 1000

\* ----------------------------------------------------------- the middleware
\* The requests of one client through AbuseProtectionMiddleware.dispatch, each
\* handled by the application for as long as it takes.  The ledger starts as
\* constructed or one QR generation short of the hourly limit.
DispatchRequests == {"qr_post", "curl_get"}
DispatchBounds ==
    /\ Within(MaxDispatched, MaxDispatchErrors, MaxViolations)
    /\ \A ip \in IPs : handling[ip].first + handling[ip].again <= MaxInFlight

\* The ledger after k calls check_limits("qr_generations") at Epoch.
consumed(k) ==
    [daily_usage |-> [NoUsage EXCEPT !["qr_generations"] = k],
     hourly_usage |-> [NoUsage EXCEPT !["qr_generations"] = k],
     last_reset |-> [daily |-> Epoch, hourly |-> Epoch]]

InitProtected ==
    /\ InitGate /\ InitLimiter /\ InitDispatch
    /\ cost \in {consumed(0), consumed(hourly_limits["qr_generations"] - 1)}
    /\ resets = 0
    /\ now = Epoch
    /\ last = NoStep

NextDispatch ==
    \/ \E ip \in SpecIPs, rq \in DispatchRequests :
          Dispatch(ip, rq, "none") /\ DispatchBounds'
    \/ \E ip \in SpecIPs, status_code \in {200, 500} :
          Complete(ip, status_code) /\ DispatchBounds'
    \/ \E ip \in SpecIPs : Failed(ip) /\ DispatchBounds'
    \/ \E ip \in SpecIPs : Retried(ip)

SpecDispatch == InitProtected /\ [][NextDispatch]_vars

\* The requests of ip that passed the gate and are still being handled.
InHandling(ip) == handling[ip].first + handling[ip].again

FaultBounds ==
    /\ Within(MaxFaultDispatched, MaxDispatchErrors, MaxViolations)
    /\ \A ip \in IPs : handling[ip].first + handling[ip].again <= MaxFaultInFlight

NextFaults ==
    \/ \E ip \in SpecIPs, rq \in DispatchRequests, fault \in ProtectionFaults :
          Dispatch(ip, rq, fault) /\ FaultBounds'
    \/ \E ip \in SpecIPs, status_code \in {200, 500} :
          Complete(ip, status_code) /\ FaultBounds'
    \/ \E ip \in SpecIPs : Failed(ip) /\ FaultBounds'
    \/ \E ip \in SpecIPs : Retried(ip)

SpecFaults == InitProtected /\ [][NextFaults]_vars

\* Whether the step `fault` of check_abuse_protection is reached, and so
\* raises, in a call for request rq of ip made now.
FaultRaised(ip, rq, fault) ==
    IF fault \in Faults
    THEN check_request(S, rq, ip, now, fault).raised
    ELSE IF fault = "record_error"
    THEN ~check_request(S, rq, ip, now, "none").allowed
    ELSE /\ check_request(S, rq, ip, now, "none").allowed
         /\ fault = "cost" => RequestFacts[rq].qr_path

\* C12: when a step of check_abuse_protection (the gate check, the error
\* recording, the resource check or the cost check) raises an exception,
\* check_abuse_protection returns (True, None), and dispatch hands the
\* request on to call_next as it does with an admitted one.
FailOpen ==
    [][(last'.op = "dispatch" /\ FaultRaised(last'.ip, last'.req, last'.fault))
          => /\ last'.allowed
             /\ last'.response = NoResponse
             /\ handling' = [handling EXCEPT ![last'.ip].first = @ + 1]]_vars

\* The request of a blocked identifier went on to call_next because
\* record_error raised after the gate had denied it.
BlockedRequestFailedOpen ==
    /\ last.op = "dispatch"
    /\ last.fault = "record_error"
    /\ last.esc = 0
    /\ last.ip \in blocked_ips
    /\ last.allowed
    /\ handling[last.ip].first > 0

\* C20: every response with status 429 that check_abuse_protection produces
\* (RATE_LIMIT_EXCEEDED of the gate, COST_LIMIT_EXCEEDED of the ledger) carries
\* an error_code and a retry hint: a retry_after in its body or a Retry-After
\* header.
Every429CarriesRetryHint ==
    (last.op = "dispatch" /\ last.response.status_code = 429)
        => /\ "error_code" \in DOMAIN last.response.content
           /\ \/ "retry_after" \in DOMAIN last.response.content
              \/ "retry-after" \in last.response.headers

\* ------------------------------------------------------- the admin's reset
\* The requests of one client with a suspicious user-agent, suspended at the
\* await for as long as the event loop likes, and the administrator's reset.
StatsRequests == {"curl_get"}
StatsBounds ==
    /\ Within(MaxRequests, 0, MaxViolations)
    /\ BagCardinality(pending) <= YieldPending

NextStats ==
    \/ \E ip \in SpecIPs, rq \in StatsRequests : Enter(ip, rq) /\ StatsBounds'
    \/ \E c \in BagToSet(pending) : Resume(c, "none") /\ StatsBounds'
    \/ ResetLimits /\ StatsBounds'

SpecStats == Init /\ [][NextStats]_vars

ZeroStats ==
    [total_clients |-> 0, blocked_ips |-> 0,
     threat_levels |-> [level \in {LOW, MEDIUM, HIGH, CRITICAL} |-> 0],
     total_violations |-> 0, concurrent_requests |-> 0]

\* C13: right after reset_limits, get_stats reports no client, no blocked
\* identifier, no violation, no client at any threat level and a concurrency
\* sum of 0, whatever requests came before the reset.
StatsZeroAfterReset ==
    last.op = "reset_limits" => get_stats(S) = ZeroStats

\* The reset found a blocked client at CRITICAL with violations on record and
\* a call of it in flight: the record lives on only in the suspended call.
ResetOfBlockedClientInFlight ==
    /\ last.op = "reset_limits"
    /\ pending # EmptyBag
    /\ \E k \in DOMAIN orphans :
          orphans[k].threat_level = CRITICAL /\ Len(orphans[k].violations) > 0

\* The requests and errors of one client, each run to its return, and the
\* administrator's reset.
ResetRequests == {"curl_get", "logo_post"}
ResetBounds == Within(MaxRequests, MaxErrors, MaxViolations)

NextReset ==
    \/ \E ip \in SpecIPs, rq \in ResetRequests : CheckRequest(ip, rq, "none") /\ ResetBounds'
    \/ \E ip \in SpecIPs : RecordError(ip) /\ ResetBounds'
    \/ ResetLimits /\ ResetBounds'

SpecReset == Init /\ [][NextReset]_vars

\* C14: reset_limits resets every rate-limit counter and block: after it the
\* client metrics, the blocked set, the concurrency counters, the cost usage
\* counters and every sliding window are empty, so that a request denied by
\* an endpoint sliding-window limit just before the reset is admitted when it
\* is made again just after.
ResetClearsEveryLimit ==
    [][last'.op = "reset_limits" =>
         /\ DOMAIN client_metrics' = {}
         /\ blocked_ips' = {}
         /\ \A ip \in IPs : concurrent_requests'[ip] = 0
         /\ cost'.daily_usage = NoUsage /\ cost'.hourly_usage = NoUsage
         /\ \A k \in Keys : time_windows'[k] = <<>>
         /\ \A ip \in IPs, rq \in RequestNames :
              (/\ last.op = "check_request"
               /\ last.ip = ip /\ last.req = rq
               /\ ~last.allowed
               /\ last.reason = category_reason(RequestFacts[rq].category))
              => (check_request(S, rq, ip, now, "none").allowed)']_vars

\* ------------------------------------------------------------------ bursts
\* The benign general requests of one client, up to MaxBurst of them, at the
\* instants Epoch, Epoch + 9 and Epoch + 10.
BurstRequests == {"presets_get", "crawler_get"}
BurstBounds == Within(MaxBurst, 0, 0)

NextBurst ==
    \/ \E ip \in SpecIPs, rq \in BurstRequests : CheckRequest(ip, rq, "none") /\ BurstBounds'
    \/ \E t \in {9, 10} : Tick(t)

SpecBurst == Init /\ [][NextBurst]_vars

\* The requests of ip admitted in the trailing BURST_WINDOW seconds; all of
\* them are on record in the client's general window.
RecentRequests(ip) ==
    Len(SelectSeq(time_windows[<<ip, "general">>], LAMBDA x : now - x < BURST_WINDOW))

\* C16: when an identifier has made more than 20 requests in the trailing 10
\* seconds and a further request of it arrives less than 500 ms after its
\* previous one, that request is denied with "Request rate too high - burst
\* detected" and the identifier's threat level goes up one step.
BurstIsDenied ==
    [][\A ip \in IPs :
         (/\ last'.op = "check_request" /\ last'.ip = ip
          /\ ip \in DOMAIN client_metrics
          /\ RecentRequests(ip) > BURST_REQUESTS
          /\ 2 * (now - client_metrics[ip].last_request_time) < 1)
         => /\ ~last'.allowed
            /\ last'.reason = "Request rate too high - burst detected"
            /\ ThreatRank(client_metrics'[ip].threat_level)
                   = ThreatRank(client_metrics[ip].threat_level) + 1]_vars

\* ------------------------------------------------------ large file uploads
\* One client that uploads logos, small ones and ones above max_file_size,
\* until it is blocked and after its block has run out.
LargeRequests == {"large_post", "logo_post"}
LargeBounds == Within(MaxLargeUploads, 0, 0)

NextLarge ==
    \/ \E ip \in SpecIPs, rq \in LargeRequests : CheckRequest(ip, rq, "none") /\ LargeBounds'
    \/ \E ip \in SpecIPs : UnblockIp(ip)
    \/ \E t \in {300} : Tick(t)

SpecLarge == Init /\ [][NextLarge]_vars

\* The record check_request finds for ip, or the one it creates.
Record(ip) ==
    IF ip \in DOMAIN client_metrics THEN client_metrics[ip] ELSE AbuseMetrics(now)

\* The level one escalation call leaves: one step up, CRITICAL stays.
NextLevel(level) ==
    IF level = CRITICAL THEN CRITICAL ELSE ThreatLevels[ThreatRank(level) + 1]

EndpointRequests == {"qr_post", "qr_get", "logo_post", "presets_get"}

NextEndpoints ==
    \E ip \in SpecIPs, rq \in EndpointRequests : CheckRequest(ip, rq, "none")

SpecEndpoints == Init /\ [][NextEndpoints]_vars

\* C23: each request that reaches the endpoint check is tested against
\* exactly one sliding window of its identifier: a POST whose path contains
\* /qr/generate against qr_generation (10 per 60 s); otherwise a POST whose
\* path contains 'upload' or 'logo' against file_upload (5 per 60 s);
\* everything else (a GET to /qr/generate too) against general (30 per 60 s).
\* The request is admitted and entered in that window when the window holds
\* fewer entries than its limit, denied with the window's reason otherwise;
\* the identifier's other two windows are left unchanged.
OneWindowPerRequest ==
    [][\A ip \in SpecIPs :
         (last'.op = "check_request" /\ last'.ip = ip) =>
            LET rq == last'.req
                category == IF rq = "qr_post" THEN "qr_generation"
                            ELSE IF rq = "logo_post" THEN "file_upload"
                            ELSE "general"
                limit == IF rq = "qr_post" THEN 10
                         ELSE IF rq = "logo_post" THEN 5
                         ELSE 30
                reason == IF rq = "qr_post" THEN "QR generation rate limit exceeded"
                          ELSE IF rq = "logo_post" THEN "File upload rate limit exceeded"
                          ELSE "General rate limit exceeded"
                window == time_windows[<<ip, category>>]
            IN  /\ last'.allowed <=> Len(window) < limit
                /\ time_windows'[<<ip, category>>] =
                      IF Len(window) < limit THEN Append(window, now) ELSE window
                /\ ~last'.allowed => last'.reason = reason
                /\ \A other \in Categories \ {category} :
                      time_windows'[<<ip, other>>] = time_windows[<<ip, other>>]]_vars

\* A GET to /qr/generate was denied by the full general window while the
\* client's qr_generation and file_upload windows had room.
GetDeniedByGeneralWindow ==
    /\ last.op = "check_request"
    /\ last.req = "qr_get"
    /\ last.reason = "General rate limit exceeded"
    /\ Len(time_windows[<<last.ip, "general">>]) = 30
    /\ Len(time_windows[<<last.ip, "qr_generation">>]) = 3
    /\ Len(time_windows[<<last.ip, "file_upload">>]) = 2

\* ------------------------------------------------- the violation history
\* A client whose requests lack the accept header (one violation), or lack it
\* and carry an unreadable content-length (two), over a little more than an
\* hour, and the administrator's reset.
HistoryRequests == {"noaccept_get", "bare_get", "presets_get"}
HistoryInstants == {1, VIOLATION_WINDOW, VIOLATION_WINDOW + 1, VIOLATION_WINDOW + 2}
HistoryBounds == Within(MaxRecorded, 0, MaxRecorded)

NextHistory ==
    \/ \E ip \in SpecIPs, rq \in HistoryRequests : CheckRequest(ip, rq, "none") /\ HistoryBounds'
    \/ ResetLimits /\ HistoryBounds'
    \/ \E t \in HistoryInstants : Tick(t)

SpecHistory == Init /\ [][NextHistory]_vars

\* The violations the _record_violation calls of a request append, in order.
Recorded(rq) ==
    IF rq = "noaccept_get" THEN <<<<now, "missing_accept_header">>>>
    ELSE IF rq = "bare_get"
    THEN <<<<now, "missing_accept_header">>, <<now, "invalid_content_length">>>>
    ELSE <<>>

\* C24: after every _record_violation call for an identifier the violation it
\* appended is there, last, and every violation retained for the identifier
\* has a timestamp newer than now - 3600 s: the call keeps, in their order,
\* exactly the violations newer than that, however many they are.  No other
\* step removes a violation, except the admin reset, which removes the
\* record.
ViolationsPrunedByAgeOnly ==
    [][\A ip \in SpecIPs :
         LET before == Record(ip).violations
             new == IF last'.op = "check_request" /\ last'.ip = ip
                    THEN Recorded(last'.req) ELSE <<>>
         IN  IF last'.op = "reset_limits"
             THEN ip \notin DOMAIN client_metrics'
             ELSE IF Len(new) = 0
             THEN ip \in DOMAIN client_metrics' =>
                     client_metrics'[ip].violations = before
             ELSE LET after == client_metrics'[ip].violations
                  IN  /\ after = SelectSeq(before \o new, LAMBDA v : v[1] > now - 3600)
                      /\ Len(after) >= Len(new)
                      /\ \A i \in 1..Len(new) :
                            after[Len(after) - Len(new) + i] = new[i]
                      /\ \A i \in 1..Len(after) : after[i][1] > now - 3600]_vars

\* A violation was recorded exactly an hour after the client's first ones:
\* those were pruned, the ones a second younger were kept.
PrunedAfterAnHour ==
    /\ last.op = "check_request"
    /\ last.req = "noaccept_get"
    /\ now = Epoch + VIOLATION_WINDOW
    /\ client_metrics[last.ip].request_count >= 4
    /\ client_metrics[last.ip].violations =
          <<<<Epoch + 1, "missing_accept_header">>,
            <<Epoch + 1, "invalid_content_length">>,
            <<Epoch + VIOLATION_WINDOW, "missing_accept_header">>>>

\* ------------------------------------------------- the protection headers
\* A benign client's requests through the middleware, each answered before
\* the next is sent, over a little more than a minute.
HeaderRequests == {"presets_get"}
HeaderBounds ==
    /\ Within(MaxAnswered, 0, 0)
    /\ \A ip \in IPs : InHandling(ip) <= 1

NextHeaders ==
    \/ \E ip \in SpecIPs, rq \in HeaderRequests :
          InHandling(ip) = 0 /\ Dispatch(ip, rq, "none") /\ HeaderBounds'
    \/ \E ip \in SpecIPs : Complete(ip, 200)
    \/ \E t \in {ENDPOINT_WINDOW + 1} :
          Tick(t) /\ \A ip \in IPs : InHandling(ip) = 0

SpecHeaders == Init /\ [][NextHeaders]_vars

\* The requests of ip counted in its general window over the trailing 60 s.
CountedInWindow(ip) ==
    Len(SelectSeq(time_windows[<<ip, "general">>],
                  LAMBDA x : x >= now - ENDPOINT_WINDOW))

\* C25: the X-RateLimit-Remaining header on the response to an admitted
\* request carries the client's remaining quota, max(0, 30 - the number of
\* its requests counted in its current 60 s window), so it is positive again
\* once the window has elapsed.
RemainingIsWindowQuota ==
    last.op = "complete" =>
        /\ "X-RateLimit-Remaining" \in DOMAIN last.headers
        /\ last.headers["X-RateLimit-Remaining"]
              = str_int(Max(0, 30 - CountedInWindow(last.ip)))

\* ------------------------------------------------------- escalation calls
\* Escalation calls on a client with a record and on one without ("b" sends
\* nothing), between requests that record violations or escalate themselves,
\* admin unblock and reset, before and after a block has run out.
EscalateRequests == {"noaccept_get", "curl_get"}

NextEscalate ==
    \/ \E ip \in IPs : Escalate(ip)
    \/ \E ip \in SpecIPs, rq \in EscalateRequests : CheckRequest(ip, rq, "none") /\ SpecBounds'
    \/ \E ip \in SpecIPs : UnblockIp(ip)
    \/ ResetLimits /\ SpecBounds'
    \/ \E t \in {300} : Tick(t)

SpecEscalate == Init /\ [][NextEscalate]_vars

\* C26: an escalation call on an identifier with a record below CRITICAL
\* raises its threat level by exactly one step (LOW to MEDIUM, MEDIUM to HIGH,
\* HIGH to CRITICAL), whether it is made on its own or by a request's
\* detector; only the step to CRITICAL touches blocked_until and the blocked
\* set.  A call on an identifier at CRITICAL, or on one without a record,
\* changes nothing: threat level, blocked_until and blocked set stay.
EscalationIsOneStep ==
    [][\A ip \in IPs :
         /\ (last'.op = "escalate" /\ last'.ip = ip) =>
              IF ip \in DOMAIN client_metrics
                 /\ client_metrics[ip].threat_level # CRITICAL
              THEN LET before == client_metrics[ip]
                       after == client_metrics'[ip]
                   IN  /\ before.threat_level = LOW => after.threat_level = MEDIUM
                       /\ before.threat_level = MEDIUM => after.threat_level = HIGH
                       /\ before.threat_level = HIGH => after.threat_level = CRITICAL
                       /\ before.threat_level # HIGH =>
                             /\ after.blocked_until = before.blocked_until
                             /\ blocked_ips' = blocked_ips
                       /\ after = [before EXCEPT
                                     !.threat_level = after.threat_level,
                                     !.blocked_until = after.blocked_until]
              ELSE /\ client_metrics' = client_metrics
                   /\ blocked_ips' = blocked_ips
         /\ (last'.op = "check_request" /\ last'.ip = ip /\ last'.esc > 0) =>
              /\ last'.esc = 1
              /\ client_metrics'[ip].threat_level
                    = NextLevel(Record(ip).threat_level)]_vars

\* An escalation call found the client at CRITICAL, its block run out but not
\* yet lifted, and left it so.
EscalatedAtCritical ==
    /\ last.op = "escalate"
    /\ last.esc = 1
    /\ last.blk = None
    /\ client_metrics[last.ip].threat_level = CRITICAL
    /\ client_metrics[last.ip].blocked_until = Epoch + 300
    /\ last.ip \in blocked_ips
    /\ now = Epoch + 300

\* ------------------------------------------------ what a denial leaves
\* C27: check_request adds exactly one to request_count when it admits the
\* request, and on no other exit: a request denied as blocked, for too many
\* concurrent requests, by a pattern detector or by the endpoint limit (or
\* ended by an exception) leaves request_count as it was; and a request denied
\* before the endpoint step (blocked, concurrency, detector) adds no entry to
\* any sliding window.
OnlyAdmissionIsCounted ==
    [][\A ip \in IPs :
         (last'.op \in {"check_request", "resume"} /\ last'.ip = ip) =>
            /\ last'.allowed => Counted(ip)' = Counted(ip) + 1
            /\ ~last'.allowed => Counted(ip)' = Counted(ip)
            /\ ~last'.allowed =>
                  \/ last'.raised
                  \/ last'.reason \in {"IP temporarily blocked due to abuse",
                                       "Too many concurrent requests",
                                       "Too many large file uploads",
                                       "File upload rate limit exceeded"}
            /\ last'.reason \in {"IP temporarily blocked due to abuse",
                                 "Too many concurrent requests",
                                 "Too many large file uploads"}
                  => time_windows' = time_windows]_vars

\* A request was denied for too many concurrent requests while five calls of
\* the client were in flight and three had been admitted.
DeniedWithFiveInFlight ==
    /\ last.op = "check_request"
    /\ last.reason = "Too many concurrent requests"
    /\ BagCardinality(pending) = 5
    /\ Counted(last.ip) = 3
    /\ Entries(last.ip) = 3

\* C28: both limiters are exact sliding windows.  After any sequence of
\* checks the window of a key holds at most `limit` entries, in non-decreasing
\* time order, and of all the checks admitted so far no more than `limit`
\* have their instants in any closed interval [t - window, t]; for
\* _check_time_window_limit and for RateLimiter.is_allowed.
ExactSlidingWindow ==
    \A op \in {"check_time_window_limit", "is_allowed"} :
        LET window == WindowOf(op)
            admitted == admissions[op]
            N == limiter.max_requests
            W == limiter.window_seconds
        IN  /\ Len(window) <= N
            /\ \A i \in 1..(Len(window) - 1) : window[i] <= window[i + 1]
            /\ \A t \in Epoch..(now + W) :
                  Cardinality({i \in 1..Len(admitted) :
                                  t - W <= admitted[i] /\ admitted[i] <= t}) <= N

\* With a limit of 3 per 2 s both limiters admitted two checks at the first
\* instant, one a second later and two more 3 s after the first: they hold
\* the last three, and the first two have left the window.
WindowSlidPastFirstEntries ==
    /\ limiter.max_requests = 3
    /\ limiter.window_seconds = 2
    /\ now = Epoch + 3
    /\ \A op \in {"check_time_window_limit", "is_allowed"} :
          /\ admissions[op] = <<Epoch, Epoch, Epoch + 1, now, now>>
          /\ WindowOf(op) = <<Epoch + 1, now, now>>

\* C29: a denied check leaves the window as it was, so denied attempts never
\* prolong the limit: a check made when the oldest entry of the key's window
\* is older than the window length is admitted, however many checks were
\* denied before it; in _check_time_window_limit and in RateLimiter.is_allowed.
DenialsDoNotProlong ==
    [][(last'.op \in {"check_time_window_limit", "is_allowed"}) =>
         LET window == WindowOf(last'.op)
             after == IF last'.op = "is_allowed" THEN limiter'.requests["a"]
                      ELSE time_windows'[WindowKey]
             W == limiter.window_seconds
         IN  /\ ~last'.allowed =>
                   /\ after = window
                   /\ admissions' = admissions
             /\ (Len(window) > 0 /\ now - window[1] > W) =>
                   /\ last'.allowed
                   /\ after[Len(after)] = now]_vars

\* The window was full from the first instant on; the check made when its
\* entries were older than the window was admitted, and the limiter holds
\* this entry only.
AdmittedOnceOldestAgedOut ==
    /\ last.op = "check_time_window_limit"
    /\ last.allowed
    /\ limiter.max_requests = MaxLimit
    /\ now = Epoch + limiter.window_seconds + 1
    /\ admissions["check_time_window_limit"] = [i \in 1..MaxLimit |-> Epoch] \o <<now>>
    /\ time_windows[WindowKey] = <<now>>

\* The violations of violation_type among violations.
OfType(violations, violation_type) ==
    Len(SelectSeq(violations, LAMBDA v : v[2] = violation_type))

\* C30: a request without an accept header records one missing_accept_header
\* violation, a request with a content-length that is no number records one
\* invalid_content_length violation, and that is all either detector does:
\* no escalation call is made, threat level, blocked_until and the blocked
\* set stay as they were, and the request is not denied (it is admitted, its
\* window having room).
HeaderViolationsAreRecordedOnly ==
    [][\A ip \in SpecIPs :
         (/\ last'.op = "check_request" /\ last'.ip = ip
          /\ last'.req \in {"noaccept_get", "bare_get"})
         => LET before == Record(ip)
                after == client_metrics'[ip]
                kept == SelectSeq(before.violations, LAMBDA v : v[1] > now - 3600)
            IN  /\ Len(Requests[last'.req].accept) = 0
                /\ last'.req = "bare_get" => ~int_parse(CL_invalid).ok
                /\ OfType(after.violations, "missing_accept_header")
                      = OfType(kept, "missing_accept_header") + 1
                /\ OfType(after.violations, "invalid_content_length")
                      = OfType(kept, "invalid_content_length")
                           + (IF last'.req = "bare_get" THEN 1 ELSE 0)
                /\ Len(after.violations)
                      = Len(kept) + (IF last'.req = "bare_get" THEN 2 ELSE 1)
                /\ last'.esc = 0
                /\ after.threat_level = before.threat_level
                /\ after.blocked_until = before.blocked_until
                /\ blocked_ips' = blocked_ips
                /\ last'.allowed
                /\ after.request_count = before.request_count + 1]_vars

\* Four requests without an accept header, two of them with an unreadable
\* content-length, were all admitted and left the client at LOW with six
\* violations.
SixViolationsAtLow ==
    /\ last.op = "check_request"
    /\ last.req = "bare_get"
    /\ last.allowed
    /\ client_metrics[last.ip].request_count = 4
    /\ OfType(client_metrics[last.ip].violations, "missing_accept_header") = 4
    /\ OfType(client_metrics[last.ip].violations, "invalid_content_length") = 2
    /\ client_metrics[last.ip].threat_level = LOW
    /\ last.ip \notin blocked_ips

\* ------------------------------------------------------------- SpecLedger
\* Two clients behind dispatch and one ledger, an hour and a day running out.
MaxLedgerRequests == 2
LedgerRequests == {"qr_post", "qr_get"}

\* Seconds between the daily reset of the ledger and Epoch: nine hourly
\* resets, each made HOUR + 1 seconds after the one before.
DayBegun == 9 * (HOUR + 1)

\* The ledger at Epoch late in its day: the hourly reset just made, and day
\* and hour generations consumed since the daily and the hourly reset.
spent(day, hour) ==
    [daily_usage |-> [NoUsage EXCEPT !["qr_generations"] = day],
     hourly_usage |-> [NoUsage EXCEPT !["qr_generations"] = hour],
     last_reset |-> [daily |-> Epoch - DayBegun, hourly |-> Epoch]]

LedgerInstants == {HOUR, HOUR + 1, DAY - DayBegun, DAY - DayBegun + 1}

LedgerBounds == Within(MaxLedgerRequests, MaxDispatchErrors, MaxViolations)

InitLedger ==
    /\ InitGate /\ InitLimiter /\ InitDispatch
    /\ cost \in {consumed(hourly_limits["qr_generations"] - 1),
                 spent(daily_limits["qr_generations"] - 1, 0),
                 spent(daily_limits["qr_generations"] - 1,
                       hourly_limits["qr_generations"] - 1)}
    /\ resets = 0
    /\ now = Epoch
    /\ last = NoStep

NextLedger ==
    \/ \E ip \in IPs, rq \in LedgerRequests :
          Dispatch(ip, rq, "none") /\ LedgerBounds'
    \/ \E t \in LedgerInstants : Tick(t)

SpecLedger == InitLedger /\ [][NextLedger]_vars

\* The generations the ledger counts at instant t, a counter whose reset is
\* due counting none.
Generations(t) ==
    [daily |-> IF t - cost.last_reset.daily > DAY THEN 0
               ELSE cost.daily_usage["qr_generations"],
     hourly |-> IF t - cost.last_reset.hourly > HOUR THEN 0
                ELSE cost.hourly_usage["qr_generations"]]

\* C31: the ledger counts per operation and not per client: a request of
\* any client to a path containing /qr/generate that the gate admits is
\* answered 429 COST_LIMIT_EXCEEDED, and counted nowhere, when the
\* generations of all clients since the last hourly reset are 1000 or those
\* since the last daily reset are 10000, a counter whose reset is due (more
\* than 3600 s, more than 86400 s) counting as 0; otherwise it passes and
\* both counters rise by one.
CostLedgerIsGlobal ==
    [][\A ip \in IPs, rq \in LedgerRequests :
         (/\ last'.op = "dispatch" /\ last'.ip = ip /\ last'.req = rq
          /\ RequestFacts[rq].qr_path
          /\ check_request(S, rq, ip, now, "none").allowed)
         => LET g == Generations(now)
                after == [daily |-> cost'.daily_usage["qr_generations"],
                          hourly |-> cost'.hourly_usage["qr_generations"]]
            IN  IF g.hourly >= 1000 \/ g.daily >= 10000
                THEN /\ ~last'.allowed
                     /\ last'.response.status_code = 429
                     /\ last'.response.content.error_code = "COST_LIMIT_EXCEEDED"
                     /\ after = g
                ELSE /\ last'.allowed
                     /\ last'.response = NoResponse
                     /\ after = [daily |-> g.daily + 1, hourly |-> g.hourly + 1]]_vars

\* Client a took the last generation of the day; after the hourly reset the
\* first request of client b, admitted by the gate, is denied on the daily
\* limit.
OtherClientDeniedOnDailyLimit ==
    /\ last.op = "dispatch"
    /\ last.ip = "b"
    /\ last.req = "qr_get"
    /\ ~last.allowed
    /\ last.response.status_code = 429
    /\ last.response.content.error_code = "COST_LIMIT_EXCEEDED"
    /\ last.response.content.message = "Daily limit exceeded"
    /\ client_metrics["b"].request_count = 1
    /\ "a" \in DOMAIN client_metrics
    /\ client_metrics["a"].request_count = 1
    /\ now = Epoch + HOUR + 1
    /\ cost.daily_usage["qr_generations"] = 10000
    /\ cost.hourly_usage["qr_generations"] = 0

\* C32: in every reachable state every identifier of the blocked set has a
\* metrics record, the record's threat level is CRITICAL and its
\* blocked_until is set, whatever requests, record_error calls, admin
\* unblocks and admin resets were made and however much time has passed.
BlockedAreCriticalWithDeadline ==
    \A ip \in blocked_ips :
        /\ ip \in DOMAIN client_metrics
        /\ client_metrics[ip].threat_level = CRITICAL
        /\ client_metrics[ip].blocked_until # None

\* After an admin reset the error rate of a client took it to CRITICAL: it
\* is in the blocked set with its deadline 300 s ahead.
BlockedByErrorsAfterReset ==
    /\ last.op = "record_error"
    /\ last.esc = 1
    /\ resets = 1
    /\ last.ip \in blocked_ips
    /\ client_metrics[last.ip].threat_level = CRITICAL
    /\ client_metrics[last.ip].blocked_until = now + 300
    /\ client_metrics[last.ip].request_count = ErrorRequests

\* C33: the lazy unblock takes the identifier out of the blocked set and
\* leaves its threat level at CRITICAL.  An identifier enters the blocked
\* set only from HIGH, by the third escalation call made since the last
\* admin unblock or reset of it, and only those two lower the count of
\* calls: it enters at most once between them.  At CRITICAL (blocked, its
\* block run out, or lazily unblocked) no step but an admin action changes
\* the level, blocks the identifier or sets a new deadline.
BlockedOncePerAdminAction ==
    [][\A ip \in IPs :
         /\ (ip \in blocked_ips /\ ip \notin blocked_ips'
                /\ last'.op = "check_request")
            => /\ last'.ip = ip
               /\ now >= client_metrics[ip].blocked_until
               /\ client_metrics'[ip].threat_level = CRITICAL
               /\ client_metrics'[ip].blocked_until = None
         /\ (ip \notin blocked_ips /\ ip \in blocked_ips')
            => /\ client_metrics[ip].threat_level = HIGH
               /\ esc_calls[ip] = 2 /\ esc_calls'[ip] = 3
         /\ esc_calls'[ip] < esc_calls[ip]
            => last'.op \in {"unblock_ip", "reset_limits"}
         /\ (/\ ip \in DOMAIN client_metrics
             /\ client_metrics[ip].threat_level = CRITICAL
             /\ last'.op \notin {"unblock_ip", "reset_limits"})
            => /\ client_metrics'[ip].threat_level = CRITICAL
               /\ client_metrics'[ip].blocked_until
                     \in {client_metrics[ip].blocked_until, None}
               /\ ip \in blocked_ips' => ip \in blocked_ips
               /\ last'.blk = None]_vars

\* The block ran out and the next request, of a suspicious agent, was
\* admitted: its escalation call, the fourth, found the client at CRITICAL
\* and left it unblocked.
EscalatedAfterLazyUnblock ==
    /\ last.op = "check_request"
    /\ last.req = "curl_get"
    /\ last.allowed
    /\ last.esc = 1
    /\ esc_calls[last.ip] = 4
    /\ resets = 0
    /\ now = Epoch + 300
    /\ last.ip \notin blocked_ips
    /\ client_metrics[last.ip].threat_level = CRITICAL
    /\ client_metrics[last.ip].blocked_until = None

\* -------------------------------------------------------------- SpecQuota
\* check_limits with costs from 0 to above the limit over the hours of a day,
\* and the admin reset.
QuotaCalls ==
    {<<"qr_generations", 0>>, <<"qr_generations", 600>>, <<"qr_generations", 1000>>,
     <<"file_uploads", 101>>}

NextQuota ==
    \/ \E call \in QuotaCalls : CheckLimits(call[1], call[2])
    \/ \E t \in CostInstants : Tick(t)
    \/ ResetLimits /\ resets' <= MaxResets

SpecQuota == Init /\ [][NextQuota]_vars

\* C34: in every reachable state, for every operation with a configured
\* limit, 0 <= daily usage <= daily limit and 0 <= hourly usage <= hourly
\* limit, over check_limits calls of cost >= 0, the lazy resets and the
\* admin reset.
UsageWithinLimits ==
    \A o \in Operations :
        /\ o \in DOMAIN daily_limits
           => cost.daily_usage[o] >= 0 /\ cost.daily_usage[o] <= daily_limits[o]
        /\ o \in DOMAIN hourly_limits
           => cost.hourly_usage[o] >= 0 /\ cost.hourly_usage[o] <= hourly_limits[o]

\* After an admin reset: 9600 generations in the day, 600 of them in this
\* hour, and a call of cost 600 denied on the daily limit where the hour had
\* no room either.
DeniedBelowDailyLimit ==
    /\ last.op = "check_limits"
    /\ last.req = "qr_generations"
    /\ last.cost = 600
    /\ ~last.allowed
    /\ last.reason = "Daily limit exceeded"
    /\ resets = 1
    /\ cost.daily_usage["qr_generations"] = 9600
    /\ cost.hourly_usage["qr_generations"] = 600

\* C35: a request that check_request denied leaves the ledger as it was, and
\* the daily and hourly usage change in no step but the dispatch of a
\* request that check_request admitted and whose path contains /qr/generate.
GateDenialConsumesNothing ==
    [][/\ \A ip \in IPs, rq \in DispatchRequests, fault \in ProtectionFaults :
            (/\ last'.op = "dispatch" /\ last'.ip = ip /\ last'.req = rq
             /\ last'.fault = fault)
            => LET r == check_request(S, rq, ip, now,
                                      IF fault \in Faults THEN fault ELSE "none")
                   admitted == ~r.raised /\ r.allowed
               IN  /\ ~admitted => cost' = cost
                   /\ ~RequestFacts[rq].qr_path => cost' = cost
                   /\ (\/ cost'.daily_usage # cost.daily_usage
                       \/ cost'.hourly_usage # cost.hourly_usage)
                      => admitted /\ RequestFacts[rq].qr_path
       /\ last'.op # "dispatch" => cost' = cost]_vars

\* The blocked client asked for a QR code: the gate denied the request and
\* the ledger stays one generation short of its hourly limit.
BlockedGenerationNotCounted ==
    /\ last.op = "dispatch"
    /\ last.req = "qr_post"
    /\ last.fault = "none"
    /\ ~last.allowed
    /\ last.response.status_code = 429
    /\ last.response.content.error_code = "RATE_LIMIT_EXCEEDED"
    /\ last.ip \in blocked_ips
    /\ cost = consumed(hourly_limits["qr_generations"] - 1)

\* -------------------------------------------------------------- SpecRetry
\* One client behind dispatch whose requests fail downstream or come from a
\* suspicious agent, and who goes on sending while blocked.
MaxRetryErrors == 9
RetryRequests == {"presets_get", "curl_get"}
RetryBounds ==
    /\ Within(ErrorRequests, MaxRetryErrors, 3)
    /\ \A ip \in IPs : handling[ip].first <= 1

NextRetry ==
    \/ \E ip \in SpecIPs, rq \in RetryRequests :
          Dispatch(ip, rq, "none") /\ RetryBounds'
    \/ \E ip \in SpecIPs, status_code \in {200, 500} :
          Complete(ip, status_code) /\ RetryBounds'
    \/ \E t \in {299} : Tick(t)

SpecRetry == InitProtected /\ [][NextRetry]_vars

\* C36: the request of an identifier whose block is in force is denied (429,
\* 'IP temporarily blocked due to abuse') and changes one thing: the
\* error_count of its record rises by one.  Every other field of the record
\* (request_count, violations, threat level, blocked_until,
\* last_request_time), the blocked set, the sliding windows, the concurrency
\* counters and the ledger are as before, and no block is set.
BlockedDenialCountsAnErrorOnly ==
    [][\A ip \in IPs :
         (last'.op = "dispatch" /\ last'.ip = ip /\ Blocked(ip))
         => /\ ~last'.allowed
            /\ last'.response.status_code = 429
            /\ last'.response.content.error_code = "RATE_LIMIT_EXCEEDED"
            /\ last'.response.content.message = "IP temporarily blocked due to abuse"
            /\ client_metrics'
                  = [client_metrics EXCEPT ![ip].error_count = @ + 1]
            /\ blocked_ips' = blocked_ips
            /\ time_windows' = time_windows
            /\ concurrent_requests' = concurrent_requests
            /\ cost' = cost
            /\ handling' = handling
            /\ last'.blk = None]_vars

\* Blocked at the first instant by its error rate, the client is denied
\* again 299 s later: the error counted makes the ninth of eleven requests,
\* the escalation call it causes finds CRITICAL, and the block still ends
\* at 300 s.
BlockedRetryLeavesDeadline ==
    /\ last.op = "dispatch"
    /\ ~last.allowed
    /\ last.esc = 1
    /\ now = Epoch + 299
    /\ last.ip \in blocked_ips
    /\ client_metrics[last.ip].threat_level = CRITICAL
    /\ client_metrics[last.ip].blocked_until = Epoch + 300
    /\ client_metrics[last.ip].request_count = ErrorRequests
    /\ client_metrics[last.ip].error_count = MaxRetryErrors
    /\ client_metrics[last.ip].last_request_time = Epoch

\* ------------------------------------------------------------ SpecDenials
\* One client behind dispatch that fills its upload window and goes on
\* uploading, with errors recorded from elsewhere.
MaxDenials == 8
DenialRequests == {"logo_post", "presets_get"}
DenialBounds == Within(ErrorRequests, MaxDenials, 3)

NextDenials ==
    \/ \E ip \in SpecIPs, rq \in DenialRequests :
          Dispatch(ip, rq, "none") /\ DenialBounds'
    \/ \E ip \in SpecIPs : RecordError(ip) /\ DenialBounds'

SpecDenials == Init /\ [][NextDenials]_vars

\* The gate denials that an identifier's record is away from the blocked
\* set: those that bring error_count to half of request_count, and one for
\* each level up to CRITICAL.
DenialsToBlock(metrics) ==
    Max(0, (metrics.request_count \div 2) - metrics.error_count)
       + (ThreatRank(CRITICAL) - ThreatRank(metrics.threat_level))

\* C37: every request that the gate denies is recorded as one error.  For an
\* identifier with request_count > 10 below CRITICAL each denial brings the
\* identifier at least one step nearer to the blocked set, no step is left
\* exactly when it is in the set, and once error_count is above half of
\* request_count at most three steps are left: with no admission and no
\* admin action between them, finitely many denials block the identifier.
DenialsLeadToBlock ==
    [][\A ip \in IPs :
         (/\ last'.op = "dispatch" /\ last'.ip = ip
          /\ ~last'.allowed
          /\ last'.response.content.error_code = "RATE_LIMIT_EXCEEDED"
          /\ ip \in DOMAIN client_metrics)
         => LET before == client_metrics[ip]
                after == client_metrics'[ip]
            IN  /\ after.error_count = before.error_count + 1
                /\ after.request_count = before.request_count
                /\ (before.request_count > 10 /\ before.threat_level # CRITICAL)
                   => /\ DenialsToBlock(after) <= DenialsToBlock(before) - 1
                      /\ DenialsToBlock(after) = 0 <=> ip \in blocked_ips'
                      /\ 2 * before.error_count > before.request_count
                         => DenialsToBlock(before) <= 3]_vars

\* Eleven requests admitted, five of them uploads: the denied upload that
\* records the eighth error makes the third escalation call and puts the
\* client in the blocked set.
BlockedByEighthDenial ==
    /\ last.op = "dispatch"
    /\ last.req = "logo_post"
    /\ ~last.allowed
    /\ last.response.content.message = "File upload rate limit exceeded"
    /\ last.esc = 1
    /\ esc_calls[last.ip] = 3
    /\ client_metrics[last.ip].request_count = ErrorRequests
    /\ client_metrics[last.ip].error_count = MaxDenials
    /\ client_metrics[last.ip].threat_level = CRITICAL
    /\ client_metrics[last.ip].violations = <<>>
    /\ last.ip \in blocked_ips

\* ---------------------------------------------------------- SpecIsolation
\* Two clients, their requests, errors and admin unblocks interleaved.
MaxIsolated == 3
IsolationRequests == {"curl_get", "logo_post"}
IsolationBounds == Within(MaxIsolated, MaxErrors, 3)

NextIsolation ==
    \/ \E ip \in IPs, rq \in IsolationRequests :
          CheckRequest(ip, rq, "none") /\ IsolationBounds'
    \/ \E ip \in IPs : RecordError(ip) /\ IsolationBounds'
    \/ \E ip \in IPs : UnblockIp(ip)

SpecIsolation == Init /\ [][NextIsolation]_vars

\* What the limiter holds about the identifier.
StateOf(s, ip) ==
    [metrics |-> IF ip \in DOMAIN s.cm THEN <<s.cm[ip]>> ELSE <<>>,
     blocked |-> ip \in s.blocked,
     windows |-> [category \in Categories |-> s.tw[<<ip, category>>]],
     concurrent |-> s.conc[ip]]

\* C38: a request, an error or an admin unblock of one identifier leaves
\* what the limiter holds about every other identifier as it was: its
\* metrics record (or the absence of one), its membership of the blocked
\* set, its three sliding windows and its concurrency counter; and the
\* gate's answer to any request of the other identifier, and what that
\* request would leave of the other's state, is the same after the step as
\* before it.
IdentifiersAreIsolated ==
    [][\A a \in IPs, b \in IPs :
         (/\ a # b
          /\ last'.op \in {"check_request", "record_error", "unblock_ip"}
          /\ last'.ip = a)
         => /\ StateOf(S', b) = StateOf(S, b)
            /\ \A rq \in IsolationRequests :
                 LET before == check_request(S, rq, b, now, "none")
                     after == check_request(S', rq, b, now, "none")
                 IN  /\ after.allowed = before.allowed
                     /\ after.reason = before.reason
                     /\ StateOf(after.s, b) = StateOf(before.s, b)]_vars

\* The admin unblocked client a while client b, blocked as well, stays
\* blocked at CRITICAL.
UnblockedBesideBlocked ==
    /\ last.op = "unblock_ip"
    /\ last.ip = "a"
    /\ DOMAIN client_metrics = {"a", "b"}
    /\ client_metrics["a"].threat_level = LOW
    /\ "a" \notin blocked_ips
    /\ "b" \in blocked_ips
    /\ client_metrics["b"].threat_level = CRITICAL
    /\ client_metrics["b"].blocked_until = Epoch + 300
    /\ now = Epoch

\* ------------------------------------------------------------ SpecHandler
\* dispatch with a downstream handler that answers or raises, on the first
\* call and on the second, and with statements after it that raise.
MaxHandled == 3
MaxHandlerErrors == 3
MaxHandling == 2
HandlerRequests == {"presets_get", "curl_get"}
HandlerBounds ==
    /\ Within(MaxHandled, MaxHandlerErrors, 3)
    /\ \A ip \in IPs : handling[ip].first + handling[ip].again <= MaxHandling

NextHandler ==
    \/ \E ip \in SpecIPs, rq \in HandlerRequests :
          Dispatch(ip, rq, "none") /\ HandlerBounds'
    \/ \E ip \in SpecIPs, status_code \in {200, 500} :
          Complete(ip, status_code) /\ HandlerBounds'
    \/ \E ip \in SpecIPs : Failed(ip) /\ HandlerBounds'
    \/ \E ip \in SpecIPs, status_code \in {200, 500} :
          FailedLater(ip, status_code) /\ HandlerBounds'
    \/ \E ip \in SpecIPs, status_code \in {200, 500, None} :
          RetriedWith(ip, status_code)

SpecHandler == Init /\ [][NextHandler]_vars

\* The errors on the identifier's record.
Errors(metrics, ip) == IF ip \in DOMAIN metrics THEN metrics[ip].error_count ELSE 0

=============================================================================
